---- MODULE Spec2Model ----
(***************************************************************************)
(* Colour-extraction core of color-compass: colour space conversion,       *)
(* median-cut quantizers, SLIC superpixels and the palette refiner.        *)
(*                                                                         *)
(* Numbers.  The JavaScript code computes in IEEE doubles.  Here a real is *)
(* carried in fixed point: Lab values in hundredths (LabScale), and the    *)
(* SLIC coordinates, colours and distances in hundredths (FP), rounded     *)
(* down; the Float32Array that stores the SLIC distances is carried at the *)
(* same resolution.  Comparisons that the code decides below that          *)
(* resolution are decided here on the rounded values.                      *)
(* Math.round(p / q) for q > 0 is RoundDiv(p, q) (half goes up).           *)
(***************************************************************************)
EXTENDS Integers, Sequences, FiniteSets, TLC

\* ------------------------------------------------------------------------
\* Bounds of the model
\* ------------------------------------------------------------------------
MaxPixels == 4
MaxTarget == 3

\* ------------------------------------------------------------------------
\* Arithmetic helpers
\* ------------------------------------------------------------------------
\* With(e, F) is F(e) with e evaluated once (const x = e; ... x ... x ...).
With(e, F(_)) == CHOOSE r \in {F(x) : x \in {e}} : TRUE

Min2(a, b) == IF a < b THEN a ELSE b
Max2(a, b) == IF a > b THEN a ELSE b

\* Math.round(p / q), q > 0: the nearest integer, a half rounds up.
RoundDiv(p, q) == (2 * p + q) \div (2 * q)

RECURSIVE SumSeq(_)
SumSeq(s) == IF s = << >> THEN 0 ELSE Head(s) + SumSeq(Tail(s))

SeqMin(s, init) == CHOOSE m \in {init} \cup {s[i] : i \in 1..Len(s)} :
                     \A i \in 1..Len(s) : m <= s[i] /\ m <= init
SeqMax(s, init) == CHOOSE m \in {init} \cup {s[i] : i \in 1..Len(s)} :
                     \A i \in 1..Len(s) : m >= s[i] /\ m >= init

\* Array.prototype.sort with a consistent comparator is a stable sort:
\* SortPerm(keys)[p] is the index of the element that ends at position p.
SortRank(keys, i) ==
  1 + Cardinality({j \in 1..Len(keys) :
                     keys[j] < keys[i] \/ (keys[j] = keys[i] /\ j < i)})
SortPerm(keys) ==
  [p \in 1..Len(keys) |-> CHOOSE i \in 1..Len(keys) : SortRank(keys, i) = p]
StableSort(s, keys) == [p \in 1..Len(s) |-> s[SortPerm(keys)[p]]]

\* Largest f with f^3 <= n, by bisection on lo..hi.
RECURSIVE CbrtSearch(_, _, _)
CbrtSearch(n, lo, hi) ==
  IF lo >= hi THEN lo
  ELSE LET mid == (lo + hi + 1) \div 2
       IN IF mid * mid * mid <= n THEN CbrtSearch(n, mid, hi)
                                  ELSE CbrtSearch(n, lo, mid - 1)

\* Largest f with f^2 <= n.
RECURSIVE SqrtSearch(_, _, _)
SqrtSearch(n, lo, hi) ==
  IF lo >= hi THEN lo
  ELSE LET mid == (lo + hi + 1) \div 2
       IN IF mid <= n \div mid THEN SqrtSearch(n, mid, hi)
                               ELSE SqrtSearch(n, lo, mid - 1)
ISqrt(n) == IF n <= 0 THEN 0 ELSE SqrtSearch(n, 1, Min2(n, 46340))

\* ------------------------------------------------------------------------
\* ColorSpace (colorUtils.js)
\* ------------------------------------------------------------------------
LabScale == 100

\* sRGBtoLinear(c / 255) * 100, in thousandths, for c = 0..255:
\* c/255 > 0.04045 ? ((c/255 + 0.055) / 1.055)^2.4 : (c/255) / 12.92
sRGBtoLinear ==
  << 0, 30, 61, 91, 121, 152, 182, 212, 243, 273, 304, 335,
     368, 402, 439, 478, 518, 561, 605, 651, 700, 750, 802, 857,
     913, 972, 1033, 1096, 1161, 1229, 1298, 1370, 1444, 1521, 1600, 1681,
     1764, 1850, 1938, 2029, 2122, 2217, 2315, 2416, 2519, 2624, 2732, 2843,
     2956, 3071, 3190, 3310, 3434, 3560, 3689, 3820, 3955, 4092, 4231, 4374,
     4519, 4667, 4817, 4971, 5127, 5286, 5448, 5613, 5781, 5951, 6125, 6301,
     6480, 6663, 6848, 7036, 7227, 7421, 7619, 7819, 8022, 8228, 8438, 8650,
     8866, 9084, 9306, 9531, 9759, 9990, 10224, 10462, 10702, 10946, 11193, 11444,
     11697, 11954, 12214, 12477, 12744, 13014, 13287, 13563, 13843, 14126, 14413, 14703,
     14996, 15293, 15593, 15896, 16203, 16513, 16827, 17144, 17465, 17789, 18116, 18447,
     18782, 19120, 19462, 19807, 20156, 20508, 20864, 21223, 21586, 21953, 22323, 22697,
     23074, 23455, 23840, 24228, 24620, 25016, 25415, 25818, 26225, 26636, 27050, 27468,
     27889, 28315, 28744, 29177, 29614, 30054, 30499, 30947, 31399, 31855, 32314, 32778,
     33245, 33716, 34191, 34670, 35153, 35640, 36131, 36625, 37124, 37626, 38133, 38643,
     39157, 39676, 40198, 40724, 41254, 41789, 42327, 42869, 43415, 43966, 44520, 45079,
     45641, 46208, 46778, 47353, 47932, 48515, 49102, 49693, 50289, 50888, 51492, 52100,
     52712, 53328, 53948, 54572, 55201, 55834, 56471, 57112, 57758, 58408, 59062, 59720,
     60383, 61050, 61721, 62396, 63076, 63760, 64448, 65141, 65837, 66539, 67244, 67954,
     68669, 69387, 70110, 70838, 71569, 72306, 73046, 73791, 74540, 75294, 76052, 76815,
     77582, 78354, 79130, 79910, 80695, 81485, 82279, 83077, 83880, 84687, 85499, 86316,
     87137, 87962, 88792, 89627, 90466, 91310, 92158, 93011, 93869, 94731, 95597, 96469,
     97345, 98225, 99110, 100000 >>

\* floor(10 * x / d) without leaving 32 bits.
MulDiv10(x, d) == (x \div d) * 10 + ((x % d) * 10) \div d

\* The CIE f function on t given in units of 1e-5, result in units of 1e-4:
\* t > 0.008856 ? t^(1/3) : (903.3 * t + 16) / 116.  The cube root is the
\* integer root of t * 1e9 refined linearly between consecutive cubes.
LabF(t5) ==
  IF t5 > 885
  THEN LET n  == t5 * 10000
           f0 == CbrtSearch(n, 0, 1001)
       IN 10 * f0 + ((n - f0 * f0 * f0) * 10)
                      \div ((f0 + 1) * (f0 + 1) * (f0 + 1) - f0 * f0 * f0)
  ELSE (9033 * t5 + 16000000) \div 11600

\* rgbToLab(r, g, b): <<L*, a*, b*>> in units of 1 / LabScale.
rgbToLab(r, g, b) ==
  LET vR == sRGBtoLinear[r + 1]
      vG == sRGBtoLinear[g + 1]
      vB == sRGBtoLinear[b + 1]
      X  == 4124 * vR + 3576 * vG + 1805 * vB
      Y  == 2126 * vR + 7152 * vG + 722 * vB
      Z  == 193 * vR + 1192 * vG + 9505 * vB
      fX == LabF(MulDiv10(X, 95047))
      fY == LabF(Y \div 10000)
      fZ == LabF(MulDiv10(Z, 108883))
  IN << (116 * fY - 160000 + 50) \div 100, 5 * (fX - fY), 2 * (fY - fZ) >>

\* labDistance squared, in units of 1 / LabScale^2 (the code returns the
\* square root; every comparison of two distances is made on the squares).
labDistSq(lab1, lab2) ==
  (lab1[1] - lab2[1]) * (lab1[1] - lab2[1])
  + (lab1[2] - lab2[2]) * (lab1[2] - lab2[2])
  + (lab1[3] - lab2[3]) * (lab1[3] - lab2[3])

\* ------------------------------------------------------------------------
\* State
\* ------------------------------------------------------------------------
\* The median-cut quantizers.
VARIABLES mcFn, mcPixelData, mcTarget, colorBoxes, splits, mcPc, mcResult
\* analyzePalette and its k-means.
VARIABLES apRawPalette, apArgs, centroids, kmIter, apPc, apResult
\* applySLIC.
VARIABLES slInput, downsampled, clusterCenters, labels, distances, slIter, slPc, slResult
\* The arguments and results of the analyzePalette calls that have returned
\* before the present one.
VARIABLES apEarlier
\* labDistance: the two arguments and the value returned.
VARIABLES ldLab1, ldLab2, ldPc, ldResult
\* The Lab worker and its manager: the worker object, the calls of
\* convertToLabAsync with their promises, the handlers registered for
\* 'conversionComplete', the messages posted to the worker and back, and
\* where the worker and the main thread are.
VARIABLES labWorker, lbCalls, messageHandlers, workerQueue, mainQueue, workerPc, mainPc
\* The calls of calculateLabDistanceAsync with their promises, and the
\* handlers registered for 'distanceCalculated'.
VARIABLES distanceCalls, distanceHandlers
\* One call of a helper of the refiner (mergeCloseClusters or
\* detectBackground): which one, its arguments and what it returns.
VARIABLES hpFn, hpInput, hpPc, hpOutput
\* The orchestrator of main.js: its module-level state, the dashboard's
\* `visible` class, the loads processImageFile has started (file, FileReader
\* and promise state), the shared <img> element (what its src holds, whose
\* onload/onerror it carries, whether a load of src is under way), the
\* promise reactions waiting to run, the stage calls of the last
\* then-callback, and the load started by the latest user action (0: none).
VARIABLES currentImageFilename, currentPixelData, currentImageSize, currentAnalyzedPalette,
          dashboardVisible, imageLoads, uploadedImage, microtasks, stageCalls, lastRequest

mcVars == << mcFn, mcPixelData, mcTarget, colorBoxes, splits, mcPc, mcResult >>
apVars == << apRawPalette, apArgs, centroids, kmIter, apPc, apResult >>
slVars == << slInput, downsampled, clusterCenters, labels, distances, slIter, slPc, slResult >>
callVars == << apEarlier >>
ldVars == << ldLab1, ldLab2, ldPc, ldResult >>
lbVars == << labWorker, lbCalls, messageHandlers, workerQueue, mainQueue, workerPc, mainPc,
             distanceCalls, distanceHandlers >>
hpVars == << hpFn, hpInput, hpPc, hpOutput >>
piVars == << currentImageFilename, currentPixelData, currentImageSize, currentAnalyzedPalette,
             dashboardVisible, imageLoads, uploadedImage, microtasks, stageCalls, lastRequest >>
vars == << mcVars, apVars, slVars, callVars, ldVars, lbVars, hpVars, piVars >>

\* What each subsystem leaves alone.
mcOthers == << apVars, slVars, callVars, ldVars, lbVars, hpVars, piVars >>
apOthers == << mcVars, slVars, callVars, ldVars, lbVars, hpVars, piVars >>
slOthers == << mcVars, apVars, callVars, ldVars, lbVars, hpVars, piVars >>
ldOthers == << mcVars, apVars, slVars, callVars, lbVars, hpVars, piVars >>
lbOthers == << mcVars, apVars, slVars, callVars, ldVars, hpVars, piVars >>
hpOthers == << mcVars, apVars, slVars, callVars, ldVars, lbVars, piVars >>
piOthers == << mcVars, apVars, slVars, callVars, ldVars, lbVars, hpVars >>

\* ------------------------------------------------------------------------
\* MedianCutQuantizer: extractPaletteMedianCut (two revisions in
\* sphereRenderer3D.js) and extractDominantColors (MMCQ)
\* ------------------------------------------------------------------------


\* The colours the model's pixel buffers are drawn from.
MCColors == { <<0, 0, 0>>, <<255, 0, 0>>, <<0, 0, 255>> }

\* A buffer is null or a sequence of pixels (alpha is never read).
MCBuffers ==
  {[isNull |-> TRUE, px |-> << >>]} \cup
  {[isNull |-> FALSE, px |-> s] :
     s \in UNION {[1..n -> MCColors] : n \in 0..MaxPixels}}

MCFunctions == {"extractPaletteMedianCut_v1", "extractPaletteMedianCut_v2",
                "extractDominantColors"}

\* allColors.push({r, g, b, lab: rgbToLab(r, g, b)})
MakeColor(p) == [r |-> p[1], g |-> p[2], b |-> p[3],
                 lab |-> rgbToLab(p[1], p[2], p[3])]

Channel(colors, ch) ==
  [i \in 1..Len(colors) |->
     CASE ch = "r" -> colors[i].r
       [] ch = "g" -> colors[i].g
       [] ch = "b" -> colors[i].b
       [] ch = "l" -> colors[i].lab[1]
       [] ch = "a" -> colors[i].lab[2]
       [] OTHER    -> colors[i].lab[3]]

\* ColorBox constructor: this.range, RGB in units of 1, Lab in 1/LabScale.
BoxRange(colors) ==
  [r     |-> SeqMax(Channel(colors, "r"), 0) - SeqMin(Channel(colors, "r"), 255),
   g     |-> SeqMax(Channel(colors, "g"), 0) - SeqMin(Channel(colors, "g"), 255),
   b     |-> SeqMax(Channel(colors, "b"), 0) - SeqMin(Channel(colors, "b"), 255),
   l     |-> SeqMax(Channel(colors, "l"), 0)
               - SeqMin(Channel(colors, "l"), 100 * LabScale),
   a     |-> SeqMax(Channel(colors, "a"), -128 * LabScale)
               - SeqMin(Channel(colors, "a"), 128 * LabScale),
   b_lab |-> SeqMax(Channel(colors, "b_lab"), -128 * LabScale)
               - SeqMin(Channel(colors, "b_lab"), 128 * LabScale)]

\* ColorBox.getWidestChannel: the first strict maximum in the order
\* r, g, b, l, a, b_lab.
ChannelNames == << "r", "g", "b", "l", "a", "b_lab" >>
WidestOf(rg) ==
  LET v == << rg.r * LabScale, rg.g * LabScale, rg.b * LabScale,
              rg.l, rg.a, rg.b_lab >>
  IN ChannelNames[CHOOSE i \in 1..6 : /\ \A j \in 1..6 : v[j] <= v[i]
                                      /\ \A j \in 1..(i - 1) : v[j] < v[i]]
getWidestChannel(colors) == With(BoxRange(colors), WidestOf)

IsLabChannel(ch) == ch \in {"l", "a", "b_lab"}

\* v1 comparator: a.lab[i] - b.lab[i] for a Lab channel, a[ch] - b[ch] else.
SortColorsV1(colors) ==
  With(getWidestChannel(colors),
       LAMBDA ch : StableSort(colors, Channel(colors, ch)))

\* v2 comparator: a.lab[channel] - b.lab[channel] with channel 'r', 'g' or
\* 'b' for an RGB channel; a.lab['r'] is undefined, the comparator returns
\* NaN, which sort takes as +0: every pair compares equal and the stable sort
\* keeps the order.
SortColorsV2(colors) ==
  With(getWidestChannel(colors),
       LAMBDA ch : IF IsLabChannel(ch)
                   THEN StableSort(colors, Channel(colors, ch))
                   ELSE colors)

\* A splice that puts back only the second child.
SpliceBoxesOneChild(boxes, idx, box1, box2) ==
  SubSeq(boxes, 1, idx - 1) \o << box2 >> \o SubSeq(boxes, idx + 1, Len(boxes))

\* colorBoxes.splice(idx, 1, box1, box2), idx counted from 1.
SpliceBoxes(boxes, idx, box1, box2) ==
  SubSeq(boxes, 1, idx - 1) \o << box1, box2 >> \o SubSeq(boxes, idx + 1, Len(boxes))

\* colorBoxes.sort((a, b) => b.colors.length - a.colors.length)
SortBoxesBySize(boxes) ==
  StableSort(boxes, [i \in 1..Len(boxes) |-> 0 - Len(boxes[i])])

\* v2: index of the first box of maximal size.
LargestBoxIndex(boxes) ==
  CHOOSE i \in 1..Len(boxes) :
    /\ \A j \in 1..Len(boxes) : Len(boxes[j]) <= Len(boxes[i])
    /\ \A j \in 1..(i - 1) : Len(boxes[j]) < Len(boxes[i])

\* v2: const finalSplit = Math.min(maxSplit ** 2, 40000)
FinalSplit(maxSplit) == Min2(maxSplit * maxSplit, 40000)

\* ColorBox.getAverageColor / calculateAverageColor on a non-empty box.
AverageColor(colors) ==
  [r |-> RoundDiv(SumSeq(Channel(colors, "r")), Len(colors)),
   g |-> RoundDiv(SumSeq(Channel(colors, "g")), Len(colors)),
   b |-> RoundDiv(SumSeq(Channel(colors, "b")), Len(colors))]

\* One palette entry.  members is the size of the box the entry was averaged
\* over; hasCount tells whether the entry carries a count field (= members);
\* nan tells that r, g, b are Math.round(0 / 0) = NaN.
PaletteEntry(colors, withCount) ==
  IF Len(colors) = 0
  THEN [r |-> 0, g |-> 0, b |-> 0, nan |-> TRUE, members |-> 0,
        hasCount |-> withCount]
  ELSE [r |-> AverageColor(colors).r, g |-> AverageColor(colors).g,
        b |-> AverageColor(colors).b, nan |-> FALSE,
        members |-> Len(colors), hasCount |-> withCount]

NonEmptyBox(box) == Len(box) > 0

\* .map(box => avg ? {...avg, count} : null).filter(Boolean)
EmitFiltered(boxes) ==
  LET kept == SelectSeq(boxes, NonEmptyBox)
  IN [i \in 1..Len(kept) |-> PaletteEntry(kept[i], TRUE)]

\* cubes.map(cube => calculateAverageColor(cube))
EmitAll(boxes) == [i \in 1..Len(boxes) |-> PaletteEntry(boxes[i], FALSE)]

\* --- extractDominantColors helpers (part_006) ---
PoolCeiling == 10000

\* downsamplePixelData: n * n average pooling above PoolCeiling pixels.
PoolN(total) ==
  CHOOSE n \in 1..total : n * n * PoolCeiling >= total
                          /\ (n = 1 \/ (n - 1) * (n - 1) * PoolCeiling < total)
PoolBlock(px, start, n) ==
  LET blk == SubSeq(px, start + 1, start + n * n)
  IN << RoundDiv(SumSeq([i \in 1..Len(blk) |-> blk[i][1]]), Len(blk)),
        RoundDiv(SumSeq([i \in 1..Len(blk) |-> blk[i][2]]), Len(blk)),
        RoundDiv(SumSeq([i \in 1..Len(blk) |-> blk[i][3]]), Len(blk)) >>
downsamplePixelData(px) ==
  IF Len(px) <= PoolCeiling THEN px
  ELSE LET n      == PoolN(Len(px))
           starts == {s \in 0..(Len(px) - 1) :
                        s % n = 0 /\ s + n * n - 1 < Len(px)}
           order  == SelectSeq([i \in 1..Len(px) |-> i - 1],
                               LAMBDA s : s \in starts)
       IN [i \in 1..Len(order) |-> PoolBlock(px, order[i], n)]

\* createInitialColorCube: the cube's pixels ({r, g, b}, no Lab).
MakeCubePixel(p) == [r |-> p[1], g |-> p[2], b |-> p[3], lab |-> <<0, 0, 0>>]
createInitialColorCube(px) ==
  [i \in 1..Len(downsamplePixelData(px)) |->
     MakeCubePixel(downsamplePixelData(px)[i])]

\* Math.max(rangeR, rangeG, rangeB) of a cube (min starts at 255, max at 0).
CubeMaxRange(pixels) ==
  With(BoxRange(pixels),
       LAMBDA rg : CHOOSE m \in {rg.r, rg.g, rg.b} :
                     m >= rg.r /\ m >= rg.g /\ m >= rg.b)

\* findCubeWithLargestRange: index of the first cube whose range is the
\* largest and exceeds -1; 0 stands for null.
FirstLargest(rs) ==
  IF \A i \in 1..Len(rs) : rs[i] <= -1 THEN 0
  ELSE CHOOSE i \in 1..Len(rs) : /\ \A j \in 1..Len(rs) : rs[j] <= rs[i]
                                 /\ \A j \in 1..(i - 1) : rs[j] < rs[i]
findCubeWithLargestRange(cubes) ==
  FirstLargest([i \in 1..Len(cubes) |-> CubeMaxRange(cubes[i])])

\* splitColorCube: the sort channel.
CubeSortByOf(rg) ==
  IF rg.g >= rg.r /\ rg.g >= rg.b THEN "g"
  ELSE IF rg.b >= rg.r /\ rg.b >= rg.g THEN "b"
  ELSE "r"
CubeSortBy(pixels) == With(BoxRange(pixels), CubeSortByOf)
SortCubePixels(pixels) ==
  With(CubeSortBy(pixels), LAMBDA ch : StableSort(pixels, Channel(pixels, ch)))

\* const medianIndex = Math.floor(n / 2); slice(0, medianIndex), slice(medianIndex)
MedianIndex(colors) == Len(colors) \div 2
LowerHalf(colors) == SubSeq(colors, 1, MedianIndex(colors))
UpperHalf(colors) == SubSeq(colors, MedianIndex(colors) + 1, Len(colors))

MCInvalidInput == mcPixelData.isNull \/ Len(mcPixelData.px) = 0 \/ mcTarget <= 0

MCInit ==
  /\ mcFn \in MCFunctions
  /\ mcPixelData \in MCBuffers
  /\ mcTarget \in -1..MaxTarget
  /\ colorBoxes = << >>
  /\ splits = 0
  /\ mcPc = "start"
  /\ mcResult = << >>

\* extractPaletteMedianCut: if (!pixelData || pixelData.length === 0 ||
\* maxColors <= 0) return [];
MC_Reject ==
  /\ mcPc = "start"
  /\ mcFn \in {"extractPaletteMedianCut_v1", "extractPaletteMedianCut_v2"}
  /\ MCInvalidInput
  /\ mcPc' = "done"
  /\ mcResult' = << >>
  /\ UNCHANGED << mcFn, mcPixelData, mcTarget, colorBoxes, splits >>
  /\ UNCHANGED mcOthers

\* extractPaletteMedianCut: collect allColors, one box holding them all.
MC_Collect ==
  /\ mcPc = "start"
  /\ mcFn \in {"extractPaletteMedianCut_v1", "extractPaletteMedianCut_v2"}
  /\ ~MCInvalidInput
  /\ colorBoxes' = << [i \in 1..Len(mcPixelData.px) |-> MakeColor(mcPixelData.px[i])] >>
  /\ splits' = 0
  /\ mcPc' = "loop"
  /\ UNCHANGED << mcFn, mcPixelData, mcTarget, mcResult >>
  /\ UNCHANGED mcOthers

\* extractDominantColors: cubes = [createInitialColorCube(pixelData)]; no
\* validation: pixelData.length of null throws.
MMCQ_CreateCube ==
  /\ mcPc = "start"
  /\ mcFn = "extractDominantColors"
  /\ IF mcPixelData.isNull
     THEN /\ mcPc' = "threw"
          /\ UNCHANGED colorBoxes
     ELSE /\ colorBoxes' = << createInitialColorCube(mcPixelData.px) >>
          /\ mcPc' = "loop"
  /\ UNCHANGED << mcFn, mcPixelData, mcTarget, splits, mcResult >>
  /\ UNCHANGED mcOthers

\* v1 (sphereRenderer3D.js:475-519): one evaluation of the while condition
\* and, when it holds, one pass through the loop body.  The result is the
\* box list, the split counter and where control goes.
V1Split(sorted, box, sp) ==
  IF Len(LowerHalf(box)) = 0 \/ Len(UpperHalf(box)) = 0
  THEN [boxes |-> << box >> \o Tail(sorted), splits |-> sp, pc |-> "emit"]
  ELSE [boxes  |-> SpliceBoxes(sorted, 1, LowerHalf(box), UpperHalf(box)),
        splits |-> sp + 1, pc |-> "loop"]
V1Step(boxes, sp, target, total) ==
  IF ~(Len(boxes) < target /\ sp < total)
  THEN [boxes |-> boxes, splits |-> sp, pc |-> "emit"]
  ELSE With(SortBoxesBySize(boxes),
            LAMBDA sorted :
              IF Len(sorted[1]) <= 1
              THEN [boxes |-> sorted, splits |-> sp, pc |-> "emit"]
              ELSE With(SortColorsV1(sorted[1]),
                        LAMBDA box : V1Split(sorted, box, sp)))

\* v2 (sphereRenderer3D.js:654-682): while (splits < finalSplit) { ... }
V2Split(boxes, idx, box, sp) ==
  [boxes  |-> SpliceBoxes(boxes, idx, LowerHalf(box), UpperHalf(box)),
   splits |-> sp + 1, pc |-> "loop"]
V2Step(boxes, sp, target) ==
  IF ~(sp < FinalSplit(target))
  THEN [boxes |-> boxes, splits |-> sp, pc |-> "emit"]
  ELSE With(LargestBoxIndex(boxes),
            LAMBDA idx :
              IF Len(boxes[idx]) <= 1
              THEN [boxes |-> boxes, splits |-> sp, pc |-> "emit"]
              ELSE With(SortColorsV2(boxes[idx]),
                        LAMBDA box : V2Split(boxes, idx, box, sp)))

\* extractDominantColors (part_006:13-22): while (cubes.length < colorCount);
\* splitColorCube(null) throws when no cube has a range above -1.
MMCQSplit(cubes, idx, sorted, sp) ==
  [boxes  |-> SpliceBoxes(cubes, idx, LowerHalf(sorted), UpperHalf(sorted)),
   splits |-> sp, pc |-> "loop"]
MMCQStep(cubes, sp, target) ==
  IF ~(Len(cubes) < target)
  THEN [boxes |-> cubes, splits |-> sp, pc |-> "emit"]
  ELSE With(findCubeWithLargestRange(cubes),
            LAMBDA idx :
              IF idx = 0
              THEN [boxes |-> cubes, splits |-> sp, pc |-> "threw"]
              ELSE With(SortCubePixels(cubes[idx]),
                        LAMBDA sorted : MMCQSplit(cubes, idx, sorted, sp)))

V1_Iterate ==
  /\ mcPc = "loop"
  /\ mcFn = "extractPaletteMedianCut_v1"
  /\ \E nx \in {V1Step(colorBoxes, splits, mcTarget, Len(mcPixelData.px))} :
       /\ colorBoxes' = nx.boxes
       /\ splits' = nx.splits
       /\ mcPc' = nx.pc
  /\ UNCHANGED << mcFn, mcPixelData, mcTarget, mcResult >>
  /\ UNCHANGED mcOthers

V2_Iterate ==
  /\ mcPc = "loop"
  /\ mcFn = "extractPaletteMedianCut_v2"
  /\ \E nx \in {V2Step(colorBoxes, splits, mcTarget)} :
       /\ colorBoxes' = nx.boxes
       /\ splits' = nx.splits
       /\ mcPc' = nx.pc
  /\ UNCHANGED << mcFn, mcPixelData, mcTarget, mcResult >>
  /\ UNCHANGED mcOthers

MMCQ_Iterate ==
  /\ mcPc = "loop"
  /\ mcFn = "extractDominantColors"
  /\ \E nx \in {MMCQStep(colorBoxes, splits, mcTarget)} :
       /\ colorBoxes' = nx.boxes
       /\ splits' = nx.splits
       /\ mcPc' = nx.pc
  /\ UNCHANGED << mcFn, mcPixelData, mcTarget, mcResult >>
  /\ UNCHANGED mcOthers

\* The final map (and filter) over the boxes.
MC_Emit ==
  /\ mcPc = "emit"
  /\ mcResult' = IF mcFn = "extractDominantColors"
                 THEN EmitAll(colorBoxes) ELSE EmitFiltered(colorBoxes)
  /\ mcPc' = "done"
  /\ UNCHANGED << mcFn, mcPixelData, mcTarget, colorBoxes, splits >>
  /\ UNCHANGED mcOthers

MCNext ==
  \/ MC_Reject
  \/ MC_Collect
  \/ MMCQ_CreateCube
  \/ V1_Iterate
  \/ V2_Iterate
  \/ MMCQ_Iterate
  \/ MC_Emit

\* ------------------------------------------------------------------------
\* PaletteRefiner: analyzePalette (paletteAnalyzer.js:21-289)
\* ------------------------------------------------------------------------


MaxRaw == 3
MaxColors == 3

\* Colours and counts of the raw palette entries: two greys less than one
\* Lab unit apart, and a red far from both.
APColors == { <<100, 100, 100>>, <<101, 101, 101>>, <<255, 0, 0>> }
APCounts == {1, 3}

APEntries == {[r |-> c[1], g |-> c[2], b |-> c[3], count |-> n] :
                c \in APColors, n \in APCounts}

\* rawPalette: null, or a list of {r, g, b, count}.
APPalettes ==
  {[isNull |-> TRUE, entries |-> << >>]} \cup
  {[isNull |-> FALSE, entries |-> e] :
     e \in UNION {[1..n -> APEntries] : n \in 0..MaxRaw}}

\* mergeIntensity (the radius is 10^mergeIntensity * 0.1), the thresholds in
\* Lab units, maxColors and minColors.
APArgSets ==
  [mergeIntensity : {0, 2}, featureThreshold : {20}, backgroundThreshold : {10},
   maxColors : 0..MaxColors, minColors : {1, 2}]

\* const actualRadius = Math.pow(10, mergeIntensity) * 0.1, in 1/LabScale.
RECURSIVE Pow10(_)
Pow10(n) == IF n <= 0 THEN 1 ELSE 10 * Pow10(n - 1)
ActualRadius(mergeIntensity) == (Pow10(mergeIntensity) * LabScale) \div 10

\* rawPalette.map(entry => ({lab, count, rgb}))
WeightedColors(entries) ==
  [i \in 1..Len(entries) |->
     [lab   |-> rgbToLab(entries[i].r, entries[i].g, entries[i].b),
      count |-> entries[i].count,
      rgb   |-> [r |-> entries[i].r, g |-> entries[i].g, b |-> entries[i].b]]]

\* initializeCentroids: the indices the next push can take.  The first
\* centroid is colors[floor(random * n)]: any index.  Each later one is the
\* first i with accum_i >= random * sum, where accum adds the distance of
\* each colour to its nearest centroid: index 1 (random = 0), or any i whose
\* distance is positive.
SeedChoices(colors, cs) ==
  IF Len(cs) = 0 THEN 1..Len(colors)
  ELSE {1} \cup {i \in 1..Len(colors) :
                   \A c \in 1..Len(cs) : labDistSq(colors[i].lab, cs[c].lab) > 0}

\* The assignment of one colour (paletteAnalyzer.js:65-86).  First the
\* nearest centroid among those closer than maxRadius (first one on ties).
\* Without any, the reduce of line 80 compares every distance with minDist,
\* which is still Infinity: it returns the last index.
ClosestIdx(lab, cs, maxRadius) ==
  LET within == {c \in 1..Len(cs) : labDistSq(lab, cs[c].lab) < maxRadius * maxRadius}
  IN IF within = {} THEN Len(cs)
     ELSE CHOOSE c \in within :
            /\ \A d \in within : labDistSq(lab, cs[c].lab) <= labDistSq(lab, cs[d].lab)
            /\ \A d \in within : d < c => labDistSq(lab, cs[d].lab) > labDistSq(lab, cs[c].lab)

\* getAverageRgb: count-weighted mean, rounded.
getAverageRgb(colors) ==
  With(SumSeq([i \in 1..Len(colors) |-> colors[i].count]),
       LAMBDA total :
         [r |-> RoundDiv(SumSeq([i \in 1..Len(colors) |-> colors[i].rgb.r * colors[i].count]), total),
          g |-> RoundDiv(SumSeq([i \in 1..Len(colors) |-> colors[i].rgb.g * colors[i].count]), total),
          b |-> RoundDiv(SumSeq([i \in 1..Len(colors) |-> colors[i].rgb.b * colors[i].count]), total)])

\* Count-weighted mean Lab of a list of {lab, count}, to 1/LabScale.
MeanLab(colors) ==
  With(SumSeq([i \in 1..Len(colors) |-> colors[i].count]),
       LAMBDA total :
         << RoundDiv(SumSeq([i \in 1..Len(colors) |-> colors[i].lab[1] * colors[i].count]), total),
            RoundDiv(SumSeq([i \in 1..Len(colors) |-> colors[i].lab[2] * colors[i].count]), total),
            RoundDiv(SumSeq([i \in 1..Len(colors) |-> colors[i].lab[3] * colors[i].count]), total) >>)

\* newCentroids of one round: the members of each non-empty cluster, in
\* centroid order, reduced to {lab, count, rgb}.
ClusterOf(colors, assign, c) ==
  SelectSeq([i \in 1..Len(colors) |-> IF assign[i] = c THEN colors[i] ELSE [count |-> 0]],
            LAMBDA x : x.count # 0)
NewCentroidsOf(colors, assign, n) ==
  With(SelectSeq([c \in 1..n |-> c], LAMBDA c : \E i \in 1..Len(colors) : assign[i] = c),
       LAMBDA kept :
         [q \in 1..Len(kept) |->
            With(ClusterOf(colors, assign, kept[q]),
                 LAMBDA cl : [lab   |-> MeanLab(cl),
                              count |-> SumSeq([i \in 1..Len(cl) |-> cl[i].count]),
                              rgb   |-> getAverageRgb(cl)])])
NewCentroids(colors, cs, maxRadius) ==
  With([i \in 1..Len(colors) |-> ClosestIdx(colors[i].lab, cs, maxRadius)],
       LAMBDA assign : NewCentroidsOf(colors, assign, Len(cs)))

\* isConverged(oldCentroids, newCentroids, 1.0)
isConverged(old, new) ==
  /\ Len(old) = Len(new)
  /\ \A i \in 1..Len(old) : labDistSq(old[i].lab, new[i].lab) < LabScale * LabScale

MaxIterations == 20

\* mergeCloseClusters: the inner loop over j > i.  st = [current, used].
RECURSIVE MergeInner(_, _, _, _, _, _)
MergeInner(st, j, clusters, mergedLen, maxRadius, minClusters) ==
  IF j > Len(clusters) THEN st
  ELSE IF j \in st.used THEN MergeInner(st, j + 1, clusters, mergedLen, maxRadius, minClusters)
  ELSE IF /\ labDistSq(st.current.lab, clusters[j].lab) < maxRadius * maxRadius
          /\ mergedLen + Len(clusters) - Cardinality(st.used) > minClusters
       THEN With([current |-> [lab   |-> MeanLab(<< st.current, clusters[j] >>),
                               count |-> st.current.count + clusters[j].count,
                               rgb   |-> getAverageRgb(<< st.current, clusters[j] >>)],
                  used    |-> st.used \cup {j}],
                 LAMBDA nx : MergeInner(nx, j + 1, clusters, mergedLen, maxRadius, minClusters))
       ELSE MergeInner(st, j + 1, clusters, mergedLen, maxRadius, minClusters)

\* mergeCloseClusters: the outer loop over i.
RECURSIVE MergeOuter(_, _, _, _, _, _)
MergeOuter(i, merged, used, clusters, maxRadius, minClusters) ==
  IF i > Len(clusters) THEN merged
  ELSE IF i \in used THEN MergeOuter(i + 1, merged, used, clusters, maxRadius, minClusters)
  ELSE With(MergeInner([current |-> clusters[i], used |-> used], i + 1, clusters,
                       Len(merged), maxRadius, minClusters),
            LAMBDA st : MergeOuter(i + 1, Append(merged, st.current), st.used \cup {i},
                                   clusters, maxRadius, minClusters))

\* clusters.sort((a, b) => b.count - a.count), then the two loops.
mergeCloseClustersNoFloor(clusters, maxRadius, minClusters) ==
  With(StableSort(clusters, [i \in 1..Len(clusters) |-> 0 - clusters[i].count]),
       LAMBDA sorted : MergeOuter(1, << >>, {}, sorted, maxRadius, 0))
mergeCloseClusters(clusters, maxRadius, minClusters) ==
  With(StableSort(clusters, [i \in 1..Len(clusters) |-> 0 - clusters[i].count]),
       LAMBDA sorted : MergeOuter(1, << >>, {}, sorted, maxRadius, minClusters))

\* new PaletteColor(cluster.rgb, cluster.count): lab is recomputed from rgb.
PaletteColor(rgb, count) ==
  [rgb |-> rgb, count |-> count, lab |-> rgbToLab(rgb.r, rgb.g, rgb.b),
   isBackground |-> FALSE, isFeature |-> FALSE]

\* findLargestSimilarRegion: the group the breadth-first search grows from
\* index i over the entries not yet visited.
RECURSIVE GrowGroup(_, _, _, _)
GrowGroup(group, visited, palette, threshold) ==
  With({j \in 1..Len(palette) :
          /\ j \notin visited
          /\ \E b \in group : labDistSq(palette[b].lab, palette[j].lab) <= threshold * threshold},
       LAMBDA more : IF more = {} THEN group
                     ELSE GrowGroup(group \cup more, visited \cup more, palette, threshold))

RECURSIVE BuildGroups(_, _, _, _, _)
BuildGroups(i, visited, groups, palette, threshold) ==
  IF i > Len(palette) THEN groups
  ELSE IF i \in visited THEN BuildGroups(i + 1, visited, groups, palette, threshold)
  ELSE With(GrowGroup({i}, visited \cup {i}, palette, threshold),
            LAMBDA g : BuildGroups(i + 1, visited \cup g, Append(groups, g), palette, threshold))

GroupCount(palette, g) == SumSeq([i \in 1..Len(palette) |-> IF i \in g THEN palette[i].count ELSE 0])

\* The first group whose pixel count exceeds every earlier maximum, starting
\* from 0; the empty set stands for null.
findFirstSimilarRegion(palette, threshold) ==
  With(BuildGroups(1, {}, << >>, palette, threshold),
       LAMBDA groups : IF Len(groups) = 0 THEN {} ELSE groups[1])
findLargestSimilarRegion(palette, threshold) ==
  With(BuildGroups(1, {}, << >>, palette, threshold),
       LAMBDA groups :
         With([q \in 1..Len(groups) |-> GroupCount(palette, groups[q])],
              LAMBDA cnt :
                IF \A q \in 1..Len(groups) : cnt[q] <= 0 THEN {}
                ELSE groups[CHOOSE q \in 1..Len(groups) :
                              /\ \A o \in 1..Len(groups) : cnt[o] <= cnt[q]
                              /\ \A o \in 1..(q - 1) : cnt[o] < cnt[q]]))

detectBackground(palette, threshold) ==
  With(findLargestSimilarRegion(palette, threshold * LabScale),
       LAMBDA region :
         [i \in 1..Len(palette) |->
            [palette[i] EXCEPT !.isBackground = @ \/ (i \in region)]])

\* identifyFeatures: the mean Lab distance to the other entries exceeds the
\* threshold; distances are taken to 1/LabScale.
identifyFeatures(palette, threshold) ==
  [i \in 1..Len(palette) |->
     [palette[i] EXCEPT !.isFeature =
        IF Len(palette) < 2 THEN TRUE
        ELSE SumSeq([j \in 1..Len(palette) |->
                       IF j = i THEN 0
                       ELSE ISqrt(labDistSq(palette[i].lab, palette[j].lab))])
             > threshold * LabScale * (Len(palette) - 1)]]

\* Steps 3 to 5 of analyzePalette on the clusters constrainedKmeans returns.
FinishPalette(clusters, args) ==
  With(identifyFeatures(
         detectBackground([i \in 1..Len(clusters) |-> PaletteColor(clusters[i].rgb, clusters[i].count)],
                          args.backgroundThreshold),
         args.featureThreshold),
       LAMBDA palette : StableSort(palette, [i \in 1..Len(palette) |-> palette[i].lab[1]]))

APIdle ==
  /\ apRawPalette = [isNull |-> TRUE, entries |-> << >>]
  /\ apArgs = [mergeIntensity |-> 0, featureThreshold |-> 20, backgroundThreshold |-> 10,
               maxColors |-> 0, minColors |-> 1]
  /\ centroids = << >>
  /\ kmIter = 0
  /\ apPc = "idle"
  /\ apResult = << >>

APInit ==
  /\ apRawPalette \in APPalettes
  /\ apArgs \in APArgSets
  /\ centroids = << >>
  /\ kmIter = 0
  /\ apPc = "start"
  /\ apResult = << >>

APEmptyInput == apRawPalette.isNull \/ Len(apRawPalette.entries) = 0

\* if (!rawPalette || rawPalette.length === 0) return [];
AP_Reject ==
  /\ apPc = "start"
  /\ APEmptyInput
  /\ apResult' = << >>
  /\ apPc' = "done"
  /\ UNCHANGED << apRawPalette, apArgs, centroids, kmIter >>
  /\ UNCHANGED apOthers

\* const centroids = [colors[Math.floor(Math.random() * colors.length)]];
KM_SeedFirst ==
  /\ apPc = "start"
  /\ ~APEmptyInput
  /\ \E i \in SeedChoices(WeightedColors(apRawPalette.entries), << >>) :
       centroids' = << WeightedColors(apRawPalette.entries)[i] >>
  /\ apPc' = IF 1 < apArgs.maxColors THEN "seed" ELSE "iterate"
  /\ UNCHANGED << apRawPalette, apArgs, kmIter, apResult >>
  /\ UNCHANGED apOthers

\* One pass of while (centroids.length < k).
KM_SeedNext ==
  /\ apPc = "seed"
  /\ \E colors \in {WeightedColors(apRawPalette.entries)} :
       \E i \in SeedChoices(colors, centroids) :
         centroids' = Append(centroids, colors[i])
  /\ apPc' = IF Len(centroids) + 1 < apArgs.maxColors THEN "seed" ELSE "iterate"
  /\ UNCHANGED << apRawPalette, apArgs, kmIter, apResult >>
  /\ UNCHANGED apOthers

\* One round of the k-means loop.  On convergence the loop is left before
\* centroids = newCentroids.
KM_Round ==
  /\ apPc = "iterate"
  /\ \E new \in {NewCentroids(WeightedColors(apRawPalette.entries), centroids,
                              ActualRadius(apArgs.mergeIntensity))} :
       IF isConverged(centroids, new)
         THEN /\ apPc' = "merge"
              /\ UNCHANGED << centroids, kmIter >>
         ELSE /\ centroids' = new
              /\ kmIter' = kmIter + 1
              /\ apPc' = IF kmIter + 1 < MaxIterations THEN "iterate" ELSE "merge"
  /\ UNCHANGED << apRawPalette, apArgs, apResult >>
  /\ UNCHANGED apOthers

\* mergeCloseClusters and steps 3 to 5 of analyzePalette.
AP_Finish ==
  /\ apPc = "merge"
  /\ apResult' = FinishPalette(mergeCloseClusters(centroids, ActualRadius(apArgs.mergeIntensity),
                                                  apArgs.minColors), apArgs)
  /\ apPc' = "done"
  /\ UNCHANGED << apRawPalette, apArgs, centroids, kmIter >>
  /\ UNCHANGED apOthers

APNext ==
  \/ AP_Reject
  \/ KM_SeedFirst
  \/ KM_SeedNext
  \/ KM_Round
  \/ AP_Finish

\* ------------------------------------------------------------------------
\* SLIC: applySLIC (slic.js:13-408)
\* ------------------------------------------------------------------------
MaxW == 3
MaxH == 4
MaxK == 4

\* The pixel count above which applySLIC downsamples (1e5 in slic.js:79 and
\* slic.js:13), scaled down so that the model's images reach it.
DownsampleCeiling == 9

\* Reals (centre coordinates, centre colours, distances, averages) are
\* carried as integers in units of 1/FP, rounded down.
FP == 100

SLColorA == <<255, 0, 0>>
SLColorB == <<0, 0, 255>>
SLPatterns == {"uniform", "columns", "rows", "corner"}

\* The pixel at (x, y) of a pattern.
PatternPixel(pattern, x, y) ==
  CASE pattern = "uniform" -> SLColorA
    [] pattern = "columns" -> IF x % 2 = 0 THEN SLColorA ELSE SLColorB
    [] pattern = "rows"    -> IF y % 2 = 0 THEN SLColorA ELSE SLColorB
    [] OTHER               -> IF x = 0 /\ y = 0 THEN SLColorB ELSE SLColorA

\* pixelData, width, height: an RGBA buffer of width * height pixels, kept as
\* the list of its (r, g, b); alpha is 255.
SLImage(w, h, pattern) ==
  [width |-> w, height |-> h,
   pixelData |-> [p \in 1..(w * h) |-> PatternPixel(pattern, (p - 1) % w, (p - 1) \div w)]]

SLInputs ==
  {[image |-> SLImage(w, h, pat), superpixelCount |-> k, compactness |-> c] :
     w \in 0..MaxW, h \in 0..MaxH, pat \in SLPatterns, k \in -1..MaxK, c \in {1, 20}}

\* rgbData[k]: byte k of the RGBA buffer, -1 for undefined (k outside it).
Byte(data, k) ==
  IF k < 0 \/ k >= 4 * Len(data) THEN -1
  ELSE IF k % 4 = 3 THEN 255
  ELSE data[(k \div 4) + 1][(k % 4) + 1]

\* rgbData[k] || 0
OrZero(v) == IF v < 0 THEN 0 ELSE v

CeilDiv(p, q) == (p + q - 1) \div q

\* downsampleImage: ratio = sqrt(w * h / maxPixels), newWidth = max(1,
\* floor(w / ratio)) = max(1, floor(sqrt(w * maxPixels / h))); max pooling
\* over [floor(x * w / newWidth), min(w, ceil((x + 1) * w / newWidth))).
NewSize(a, b) == Max2(1, ISqrt((a * DownsampleCeiling) \div b))
PoolMax(data, w, h, nw, nh, x, y, ch) ==
  SeqMax([q \in 1..(w * h) |->
            IF /\ (q - 1) % w >= (x * w) \div nw
               /\ (q - 1) % w < Min2(w, CeilDiv((x + 1) * w, nw))
               /\ (q - 1) \div w >= (y * h) \div nh
               /\ (q - 1) \div w < Min2(h, CeilDiv((y + 1) * h, nh))
            THEN data[q][ch] ELSE 0], 0)
downsampleImage(data, w, h) ==
  With(<< NewSize(w, h), NewSize(h, w) >>,
       LAMBDA n :
         [data |-> [p \in 1..(n[1] * n[2]) |->
                      << PoolMax(data, w, h, n[1], n[2], (p - 1) % n[1], (p - 1) \div n[1], 1),
                         PoolMax(data, w, h, n[1], n[2], (p - 1) % n[1], (p - 1) \div n[1], 2),
                         PoolMax(data, w, h, n[1], n[2], (p - 1) % n[1], (p - 1) \div n[1], 3) >>],
          width |-> n[1], height |-> n[2]])

\* upscaleLabels that returns its argument, for comparison.
upscaleLabelsNone(lbls, srcWidth, srcHeight, dstWidth, dstHeight) == lbls

\* upscaleLabels: upscaled[y * dstWidth + x] = labels[srcY * srcWidth + srcX]
\* with srcX = floor(x * srcWidth / dstWidth).
upscaleLabels(lbls, srcWidth, srcHeight, dstWidth, dstHeight) ==
  [p \in 1..(dstWidth * dstHeight) |->
     lbls[(((((p - 1) \div dstWidth) * srcHeight) \div dstHeight) * srcWidth)
          + ((((p - 1) % dstWidth) * srcWidth) \div dstWidth) + 1]]

\* step = sqrt(w * h / k) is rational exactly when 4 * w * h / k is a square
\* number; every coordinate f + i * step is then a multiple of 1/2 for the
\* k the model draws.
StepRational(w, h, k) ==
  /\ (4 * w * h) % k = 0
  /\ ISqrt((4 * w * h) \div k) * ISqrt((4 * w * h) \div k) = (4 * w * h) \div k

\* The start with Math.ceil in place of Math.floor, for comparison.
SeedStartCeil(w, h, k) ==
  CHOOSE n \in 0..(w * h + 1) : /\ n * n * 4 * k >= w * h
                                /\ \A m \in 0..(n - 1) : m * m * 4 * k < w * h

\* Math.floor(step / 2) = floor(sqrt(w * h / (4 * k)))
SeedStart(w, h, k) == ISqrt((w * h) \div (4 * k))

\* The number of passes of for (v = f; v < limit; v += step):
\* f + i * step < limit iff i * i * w * h < (limit - f)^2 * k.
SeedCount(limit, f, w, h, k) ==
  IF f >= limit THEN 0
  ELSE Cardinality({i \in 0..(limit * k) : i * i * w * h < (limit - f) * (limit - f) * k})

\* f + i * step in units of 1/FP.
SeedCoord(f, i, w, h, k) == f * FP + ISqrt((i * i * w * h * FP * FP) \div k)

\* getLuminance(index) for the byte offset off = index * 4, in 1/FP;
\* -1 stands for NaN (a byte that is undefined).
Luminance(data, off) ==
  IF Byte(data, off) < 0 \/ Byte(data, off + 1) < 0 \/ Byte(data, off + 2) < 0 THEN -1
  ELSE (299 * Byte(data, off) + 587 * Byte(data, off + 1) + 114 * Byte(data, off + 2)) \div 10

\* calculateGradient at (x, y) in 1/FP; -1 stands for Infinity (a border
\* position) and for NaN (an index that is no integer, or a neighbour
\* outside the buffer): neither is below any minimum.  exact: x and y are
\* rational, so (y * w + x) * 4 is an integer.
calculateGradient(data, w, h, x, y, exact) ==
  IF x <= 0 \/ x >= (w - 1) * FP \/ y <= 0 \/ y >= (h - 1) * FP \/ ~exact THEN -1
  ELSE With((4 * (y * w + x)) \div FP,
            LAMBDA off :
              With(<< Luminance(data, off + 4), Luminance(data, off - 4),
                      Luminance(data, off + 4 * w), Luminance(data, off - 4 * w) >>,
                   LAMBDA lum :
                     IF \E q \in 1..4 : lum[q] < 0 THEN -1
                     ELSE (lum[1] - lum[2]) * (lum[1] - lum[2])
                          + (lum[3] - lum[4]) * (lum[3] - lum[4])))

\* findLowestGradientNeighbor: the first position of the 3x3 neighbourhood,
\* rows first, whose gradient is below every earlier one, else (x, y); and
\* the bytes read there.
NeighbourOffsets == << <<-1, -1>>, <<0, -1>>, <<1, -1>>, <<-1, 0>>, <<0, 0>>, <<1, 0>>,
                       <<-1, 1>>, <<0, 1>>, <<1, 1>> >>
findLowestGradientNeighbor(data, w, h, x, y, exact) ==
  With([q \in 1..9 |->
          With(<< x + NeighbourOffsets[q][1] * FP, y + NeighbourOffsets[q][2] * FP >>,
               LAMBDA n : IF n[1] >= 0 /\ n[1] < w * FP /\ n[2] >= 0 /\ n[2] < h * FP
                          THEN calculateGradient(data, w, h, n[1], n[2], exact)
                          ELSE -1)],
       LAMBDA grad :
         With(IF \A q \in 1..9 : grad[q] < 0 THEN << x, y >>
              ELSE With(CHOOSE q \in 1..9 :
                          /\ grad[q] >= 0
                          /\ \A o \in 1..9 : grad[o] >= 0 => grad[q] <= grad[o]
                          /\ \A o \in 1..(q - 1) : grad[o] >= 0 => grad[q] < grad[o],
                        LAMBDA q : << x + NeighbourOffsets[q][1] * FP,
                                      y + NeighbourOffsets[q][2] * FP >>),
              LAMBDA best :
                With(IF exact THEN (4 * (best[2] * w + best[1])) \div FP ELSE -1,
                     LAMBDA off : [x |-> best[1], y |-> best[2],
                                   r |-> OrZero(Byte(data, off)) * FP,
                                   g |-> OrZero(Byte(data, off + 1)) * FP,
                                   b |-> OrZero(Byte(data, off + 2)) * FP])))

\* initializeClusterCenters for k >= 1 on a non-empty image: the seeds of
\* the two loops, rows outside.  With k <= 0 step is Infinity or NaN and
\* with an empty image and no rows the loop is not entered: no seed.
initializeClusterCenters(data, w, h, k) ==
  IF k <= 0 \/ w * h = 0 THEN << >>
  ELSE With(<< SeedStart(w, h, k), StepRational(w, h, k) >>,
            LAMBDA s :
              With(<< SeedCount(w, s[1], w, h, k), SeedCount(h, s[1], w, h, k) >>,
                   LAMBDA n :
                     [q \in 1..(n[1] * n[2]) |->
                        findLowestGradientNeighbor(data, w, h,
                          SeedCoord(s[1], (q - 1) % n[1], w, h, k),
                          SeedCoord(s[1], (q - 1) \div n[1], w, h, k),
                          s[2] \/ q = 1)]))

\* With width = 0 and height > 0, step is 0 (or -0 for k < 0): the outer
\* loop of initializeClusterCenters is entered and y += step never advances.
SeedLoopNeverEnds(w, h, k) == w * h = 0 /\ h > 0 /\ k # 0

\* Math.floor(2 * step) with step = sqrt(w * h / clusterCenters.length).
SearchRegion(w, h, n) == ISqrt((4 * w * h) \div n)

\* Whether pixel (x, y) lies in the search window of a centre.
InWindow(center, x, y, w, h, region) ==
  /\ y >= Max2(0, (center.y \div FP) - region)
  /\ y < Min2(h, (center.y \div FP) + region)
  /\ x >= Max2(0, (center.x \div FP) - region)
  /\ x < Min2(w, (center.x \div FP) + region)

\* colorDist + compactness / (step * step) * spatialDist in 1/FP, where
\* 1 / (step * step) = n / (w * h).
PixelDistance(pixel, center, x, y, w, h, n, compactness) ==
  (((pixel[1] * FP - center.r) * (pixel[1] * FP - center.r)
    + (pixel[2] * FP - center.g) * (pixel[2] * FP - center.g)
    + (pixel[3] * FP - center.b) * (pixel[3] * FP - center.b)) \div FP)
  + ((compactness * n * ((x * FP - center.x) * (x * FP - center.x)
                         + (y * FP - center.y) * (y * FP - center.y))) \div (w * h * FP))

\* if (distance < distances[pixelIdx]); a stored -1 stands for Infinity.
Closer(d, stored) == stored < 0 \/ d < stored

\* The passes of one centre over its window.  st = [labels, distances];
\* -2 marks the pixels the centre leaves alone.
AssignCenter(st, clusterIdx, center, data, w, h, region, n, compactness) ==
  With([p \in 1..(w * h) |->
          IF InWindow(center, (p - 1) % w, (p - 1) \div w, w, h, region)
          THEN With(PixelDistance(data[p], center, (p - 1) % w, (p - 1) \div w,
                                  w, h, n, compactness),
                    LAMBDA d : IF Closer(d, st.distances[p]) THEN d ELSE -2)
          ELSE -2],
       LAMBDA won :
         [labels    |-> [p \in 1..(w * h) |-> IF won[p] = -2 THEN st.labels[p] ELSE clusterIdx],
          distances |-> [p \in 1..(w * h) |-> IF won[p] = -2 THEN st.distances[p] ELSE won[p]]])

\* clusterCenters.forEach of one round, in index order.
RECURSIVE AssignAll(_, _, _, _, _, _, _)
AssignAll(st, q, centers, data, w, h, compactness) ==
  IF q > Len(centers) THEN st
  ELSE With(AssignCenter(st, q - 1, centers[q], data, w, h,
                         SearchRegion(w, h, Len(centers)), Len(centers), compactness),
            LAMBDA nx : AssignAll(nx, q + 1, centers, data, w, h, compactness))

\* updateClusterCenters and line 285: the mean position and colour of the
\* pixels of each label, the previous centre for a label without pixels.
updateClusterCenters(data, w, h, lbls, centers) ==
  [q \in 1..Len(centers) |->
     With({p \in 1..(w * h) : lbls[p] = q - 1},
          LAMBDA members :
            IF members = {} THEN centers[q]
            ELSE With(Cardinality(members),
                      LAMBDA count :
                        [x |-> (SumSeq([p \in 1..(w * h) |-> IF p \in members THEN (p - 1) % w ELSE 0]) * FP) \div count,
                         y |-> (SumSeq([p \in 1..(w * h) |-> IF p \in members THEN (p - 1) \div w ELSE 0]) * FP) \div count,
                         r |-> (SumSeq([p \in 1..(w * h) |-> IF p \in members THEN data[p][1] ELSE 0]) * FP) \div count,
                         g |-> (SumSeq([p \in 1..(w * h) |-> IF p \in members THEN data[p][2] ELSE 0]) * FP) \div count,
                         b |-> (SumSeq([p \in 1..(w * h) |-> IF p \in members THEN data[p][3] ELSE 0]) * FP) \div count]))]

\* The 4-neighbours of pixel p (1-based) that carry the same label.
SameLabelNeighbours(lbls, w, h, p) ==
  {q \in 1..(w * h) :
     /\ lbls[q] = lbls[p]
     /\ \/ (q = p - w)
        \/ (q = p + w)
        \/ (q = p - 1 /\ (p - 1) % w # 0)
        \/ (q = p + 1 /\ p % w # 0)}

\* floodFill: the 4-connected segment of the start pixel.
RECURSIVE floodFill(_, _, _, _)
floodFill(lbls, w, h, segment) ==
  With(UNION {SameLabelNeighbours(lbls, w, h, p) : p \in segment} \ segment,
       LAMBDA more : IF more = {} THEN segment
                     ELSE floodFill(lbls, w, h, segment \cup more))

\* The loop of enforceConnectivity from pixel p on.  st = [cleaned, visited,
\* currentLabel]; a segment is kept when segment.length >= w * h / (2 *
\* distinct); the pixels of the others keep the 0 the array starts with.
RECURSIVE ConnectFrom(_, _, _, _, _, _)
ConnectFrom(st, p, lbls, w, h, distinct) ==
  IF p > w * h THEN st.cleaned
  ELSE IF p \in st.visited THEN ConnectFrom(st, p + 1, lbls, w, h, distinct)
  ELSE With(floodFill(lbls, w, h, {p}),
            LAMBDA segment :
              With(IF 2 * distinct * Cardinality(segment) >= w * h
                   THEN [cleaned      |-> [q \in 1..(w * h) |->
                                             IF q \in segment THEN st.currentLabel
                                             ELSE st.cleaned[q]],
                         visited      |-> st.visited \cup segment,
                         currentLabel |-> st.currentLabel + 1]
                   ELSE [st EXCEPT !.visited = @ \cup segment],
                   LAMBDA nx : ConnectFrom(nx, p + 1, lbls, w, h, distinct)))

enforceConnectivity(lbls, w, h) ==
  ConnectFrom([cleaned |-> [q \in 1..(w * h) |-> 0], visited |-> {}, currentLabel |-> 0],
              1, lbls, w, h, Cardinality({lbls[q] : q \in 1..(w * h)}))

\* features[label] is undefined for a label >= clusterCount: reading
\* .avgRGB of it throws a TypeError.
ExtractThrows(lbls, clusterCount) ==
  \E p \in 1..Len(lbls) : lbls[p] >= clusterCount

\* extractSuperpixelFeatures: per label with pixels, the mean colour in 1/FP
\* and the pixel count.
extractSuperpixelFeatures(data, lbls, clusterCount) ==
  With([q \in 1..clusterCount |->
          With({p \in 1..Len(lbls) : lbls[p] = q - 1},
               LAMBDA members :
                 With(Cardinality(members),
                      LAMBDA count :
                        [avgRGB |->
                           IF count = 0 THEN << 0, 0, 0 >>
                           ELSE [ch \in 1..3 |->
                                   (SumSeq([p \in 1..Len(lbls) |->
                                              IF p \in members THEN data[p][ch] ELSE 0]) * FP)
                                   \div count],
                         pixelCount |-> count]))],
       LAMBDA features : SelectSeq(features, LAMBDA feat : feat.pixelCount > 0))

SLIdle ==
  /\ slInput = [image |-> [width |-> 0, height |-> 0, pixelData |-> << >>],
                superpixelCount |-> 0, compactness |-> 1]
  /\ downsampled = [data |-> << >>, width |-> 0, height |-> 0]
  /\ clusterCenters = << >>
  /\ labels = << >>
  /\ distances = << >>
  /\ slIter = 0
  /\ slPc = "idle"
  /\ slResult = [labels |-> << >>, features |-> << >>]

SLInit ==
  /\ slInput \in SLInputs
  /\ downsampled = [data |-> << >>, width |-> 0, height |-> 0]
  /\ clusterCenters = << >>
  /\ labels = << >>
  /\ distances = << >>
  /\ slIter = 0
  /\ slPc = "start"
  /\ slResult = [labels |-> << >>, features |-> << >>]

\* applySLIC, lines 78-81: downsample when width * height exceeds the ceiling.
SL_Downsample ==
  /\ slPc = "start"
  /\ downsampled' =
       IF slInput.image.width * slInput.image.height > DownsampleCeiling
       THEN downsampleImage(slInput.image.pixelData, slInput.image.width, slInput.image.height)
       ELSE [data |-> slInput.image.pixelData, width |-> slInput.image.width,
             height |-> slInput.image.height]
  /\ slPc' = "seed"
  /\ UNCHANGED << slInput, clusterCenters, labels, distances, slIter, slResult >>
  /\ UNCHANGED slOthers

\* initializeClusterCenters, and the arrays assignPixelsToClusters starts
\* with (labels -1, distances Infinity).
SL_InitCenters ==
  /\ slPc = "seed"
  /\ IF SeedLoopNeverEnds(downsampled.width, downsampled.height, slInput.superpixelCount)
       THEN /\ slPc' = "hang"
            /\ UNCHANGED << clusterCenters, labels, distances >>
       ELSE /\ clusterCenters' = initializeClusterCenters(downsampled.data, downsampled.width,
                                   downsampled.height, slInput.superpixelCount)
            /\ labels' = [p \in 1..(downsampled.width * downsampled.height) |-> -1]
            /\ distances' = [p \in 1..(downsampled.width * downsampled.height) |-> -1]
            /\ slPc' = "assign"
  /\ UNCHANGED << slInput, downsampled, slIter, slResult >>
  /\ UNCHANGED slOthers

\* One of the 10 rounds of assignPixelsToClusters: every centre claims the
\* pixels of its window it is closer to than the stored distance, then the
\* centres move.  distances is not reset between rounds.
SL_AssignRound ==
  /\ slPc = "assign"
  /\ \E st \in {AssignAll([labels |-> labels, distances |-> distances], 1, clusterCenters,
                          downsampled.data, downsampled.width, downsampled.height,
                          slInput.compactness)} :
       /\ labels' = st.labels
       /\ distances' = st.distances
       /\ clusterCenters' = updateClusterCenters(downsampled.data, downsampled.width,
                                                 downsampled.height, st.labels, clusterCenters)
  /\ slIter' = slIter + 1
  /\ slPc' = IF slIter + 1 < 10 THEN "assign" ELSE "connect"
  /\ UNCHANGED << slInput, downsampled, slResult >>
  /\ UNCHANGED slOthers

\* enforceConnectivity on the labels of the last round.
SL_EnforceConnectivity ==
  /\ slPc = "connect"
  /\ labels' = enforceConnectivity(labels, downsampled.width, downsampled.height)
  /\ slPc' = "extract"
  /\ UNCHANGED << slInput, downsampled, clusterCenters, distances, slIter, slResult >>
  /\ UNCHANGED slOthers

\* applySLIC, lines 93-101: the labels are upscaled when the image was
\* downsampled, and the features are taken from the original pixelData.
FinalLabels ==
  IF downsampled.width # slInput.image.width \/ downsampled.height # slInput.image.height
  THEN upscaleLabels(labels, downsampled.width, downsampled.height,
                     slInput.image.width, slInput.image.height)
  ELSE labels

SL_ExtractFeatures ==
  /\ slPc = "extract"
  /\ \E final \in {FinalLabels} :
       IF ExtractThrows(final, Len(clusterCenters))
         THEN /\ slPc' = "threw"
              /\ UNCHANGED slResult
         ELSE /\ slResult' = [labels   |-> final,
                              features |-> extractSuperpixelFeatures(slInput.image.pixelData,
                                             final, Len(clusterCenters))]
              /\ slPc' = "done"
  /\ UNCHANGED << slInput, downsampled, clusterCenters, labels, distances, slIter >>
  /\ UNCHANGED slOthers

SLNext ==
  \/ SL_Downsample
  \/ SL_InitCenters
  \/ SL_AssignRound
  \/ SL_EnforceConnectivity
  \/ SL_ExtractFeatures

\* ------------------------------------------------------------------------
\* labDistance (colorUtils.js:154-163)
\* ------------------------------------------------------------------------
\* A Lab argument: null, or an array of numbers in units of 1 / LabScale.
LDNull == [isNull |-> TRUE, v |-> << >>]
LDLabs ==
  {LDNull, [isNull |-> FALSE, v |-> << 5000, 0 >>]} \cup
  {[isNull |-> FALSE, v |-> << l, a, b >>] :
     l \in {0, 5000, 10000}, a \in {-8000, 0, 8000}, b \in {-10000, 0, 9000}}

\* !lab1 || !lab2 || lab1.length < 3 || lab2.length < 3
LDInvalid(lab1, lab2) ==
  lab1.isNull \/ lab2.isNull \/ Len(lab1.v) < 3 \/ Len(lab2.v) < 3

\* labDistance(lab1, lab2): Infinity on invalid input, else
\* Math.sqrt(deltaL * deltaL + deltaA * deltaA + deltaB * deltaB), in units
\* of 1 / LabScale, rounded down.
labDistanceOneSided(lab1, lab2) ==
  IF LDInvalid(lab1, lab2) THEN [infinite |-> TRUE, d |-> 0]
  ELSE [infinite |-> FALSE,
        d |-> ISqrt(labDistSq(<< Max2(lab1.v[1] - lab2.v[1], 0), lab1.v[2], lab1.v[3] >>,
                              << 0, lab2.v[2], lab2.v[3] >>))]
labDistance(lab1, lab2) ==
  IF LDInvalid(lab1, lab2) THEN [infinite |-> TRUE, d |-> 0]
  ELSE [infinite |-> FALSE, d |-> ISqrt(labDistSq(lab1.v, lab2.v))]

LDIdle ==
  /\ ldLab1 = LDNull
  /\ ldLab2 = LDNull
  /\ ldPc = "idle"
  /\ ldResult = [infinite |-> TRUE, d |-> 0]

LDInit ==
  /\ ldLab1 \in LDLabs
  /\ ldLab2 \in LDLabs
  /\ ldPc = "start"
  /\ ldResult = [infinite |-> TRUE, d |-> 0]

\* One call labDistance(lab1, lab2).
LD_Call ==
  /\ ldPc = "start"
  /\ ldResult' = labDistance(ldLab1, ldLab2)
  /\ ldPc' = "done"
  /\ UNCHANGED << ldLab1, ldLab2 >>
  /\ UNCHANGED ldOthers

LDNext ==
  \/ LD_Call

\* ------------------------------------------------------------------------
\* Lab conversion: the worker (colorUtils.js:165-318) and its manager
\* (part_007)
\* ------------------------------------------------------------------------
MaxLabPixels == 3
MaxLabCalls == 1

LabColors == { <<255, 0, 0>>, <<0, 0, 255>> }
LabSampleFactors == {0, 1, 2}

\* pixelData: null, or an RGBA buffer given by its pixels (alpha is never
\* read).
LabBuffers ==
  {[isNull |-> TRUE, px |-> << >>]} \cup
  {[isNull |-> FALSE, px |-> s] :
     s \in UNION {[1..n -> LabColors] : n \in 0..MaxLabPixels}}

LabArgs == [pixelData : LabBuffers, sampleFactor : LabSampleFactors]

\* for (let i = 0; i < totalPixels; i += sampleFactor): with a sample factor
\* of 0 and at least one pixel i never advances.
LabLoopNeverEnds(args) ==
  ~args.pixelData.isNull /\ Len(args.pixelData.px) > 0 /\ args.sampleFactor <= 0

\* The pixels the loop visits: i = 0, sampleFactor, 2 * sampleFactor, ...
LabSampled(px, sampleFactor) ==
  IF Len(px) = 0 THEN << >>
  ELSE [k \in 1..CeilDiv(Len(px), sampleFactor) |-> px[(k - 1) * sampleFactor + 1]]

\* reduce((a, b) => a + b, 0) / length: NaN for an empty list.
LabAvg(values, n) ==
  IF n = 0 THEN [nan |-> TRUE, v |-> 0]
  ELSE [nan |-> FALSE, v |-> SumSeq(values) \div n]

\* The worker's and the manager's copies of rgbToLab.
rgbToLabWorker(r, g, b) == rgbToLab(r, g, b)
rgbToLabSync(r, g, b) == rgbToLab(r, g, b)

LabNothing ==
  [values |-> << >>,
   stats  |-> [avg |-> << LabAvg(<< >>, 0), LabAvg(<< >>, 0), LabAvg(<< >>, 0) >>,
               count |-> 0]]

\* convertToLabBulk(pixelData, sampleFactor) of the worker.
convertToLabBulkAllPixels(pixelData, sampleFactor) ==
  With([k \in 1..Len(pixelData.px) |->
          rgbToLabWorker(pixelData.px[k][1], pixelData.px[k][2], pixelData.px[k][3])],
       LAMBDA labValues :
         [values |-> labValues,
          stats  |-> [avg |-> << LabAvg([k \in 1..Len(labValues) |-> labValues[k][1]], Len(labValues)),
                                 LabAvg([k \in 1..Len(labValues) |-> labValues[k][2]], Len(labValues)),
                                 LabAvg([k \in 1..Len(labValues) |-> labValues[k][3]], Len(labValues)) >>,
                      count |-> Len(labValues)]])
convertToLabBulk(pixelData, sampleFactor) ==
  With([k \in 1..Len(LabSampled(pixelData.px, sampleFactor)) |->
          rgbToLabWorker(LabSampled(pixelData.px, sampleFactor)[k][1],
                         LabSampled(pixelData.px, sampleFactor)[k][2],
                         LabSampled(pixelData.px, sampleFactor)[k][3])],
       LAMBDA labValues :
         [values |-> labValues,
          stats  |-> [avg |-> << LabAvg([k \in 1..Len(labValues) |-> labValues[k][1]], Len(labValues)),
                                 LabAvg([k \in 1..Len(labValues) |-> labValues[k][2]], Len(labValues)),
                                 LabAvg([k \in 1..Len(labValues) |-> labValues[k][3]], Len(labValues)) >>,
                      count |-> Len(labValues)]])

\* convertToLabSync(pixelData, sampleFactor) of the manager; avgB is divided
\* by aValues.length.
convertToLabSync(pixelData, sampleFactor) ==
  With([k \in 1..Len(LabSampled(pixelData.px, sampleFactor)) |->
          rgbToLabSync(LabSampled(pixelData.px, sampleFactor)[k][1],
                       LabSampled(pixelData.px, sampleFactor)[k][2],
                       LabSampled(pixelData.px, sampleFactor)[k][3])],
       LAMBDA labValues :
         With([k \in 1..Len(labValues) |-> labValues[k][2]],
              LAMBDA aValues :
                [values |-> labValues,
                 stats  |-> [avg |-> << LabAvg([k \in 1..Len(labValues) |-> labValues[k][1]], Len(labValues)),
                                        LabAvg(aValues, Len(aValues)),
                                        LabAvg([k \in 1..Len(labValues) |-> labValues[k][3]], Len(aValues)) >>,
                             count |-> Len(labValues)]]))

LBInit ==
  /\ labWorker = "null"
  /\ lbCalls = << >>
  /\ messageHandlers = << >>
  /\ distanceCalls = << >>
  /\ distanceHandlers = << >>
  /\ workerQueue = << >>
  /\ mainQueue = << >>
  /\ workerPc = "waiting"
  /\ mainPc = "running"

LBIdle ==
  /\ labWorker = "null"
  /\ lbCalls = << >>
  /\ messageHandlers = << >>
  /\ distanceCalls = << >>
  /\ distanceHandlers = << >>
  /\ workerQueue = << >>
  /\ mainQueue = << >>
  /\ workerPc = "waiting"
  /\ mainPc = "idle"

\* convertToLabAsync(pixelData, sampleFactor) when initLabWorker returns a
\* worker (the one it holds, or a new one): the handler is registered and
\* the request is posted; the promise stays pending.
LB_ConvertAsync ==
  /\ mainPc = "running"
  /\ Len(lbCalls) < MaxLabCalls
  /\ labWorker' = "worker"
  /\ \E args \in LabArgs :
       /\ lbCalls' = Append(lbCalls, [args |-> args, promise |-> "pending", value |-> LabNothing])
       /\ workerQueue' = Append(workerQueue, [type |-> "convertBulk", data |-> args])
  /\ messageHandlers' = Append(messageHandlers, Len(lbCalls) + 1)
  /\ UNCHANGED << mainQueue, workerPc, mainPc, distanceCalls, distanceHandlers >>
  /\ UNCHANGED lbOthers

\* convertToLabAsync when new Worker(...) throws: initLabWorker returns null
\* and the executor resolves with convertToLabSync(pixelData, sampleFactor);
\* an exception of convertToLabSync rejects the promise.
LB_ConvertFallback ==
  /\ mainPc = "running"
  /\ Len(lbCalls) < MaxLabCalls
  /\ labWorker = "null"
  /\ \E args \in LabArgs :
       IF LabLoopNeverEnds(args)
         THEN /\ mainPc' = "hang"
              /\ lbCalls' = Append(lbCalls, [args |-> args, promise |-> "pending", value |-> LabNothing])
         ELSE /\ mainPc' = mainPc
              /\ lbCalls' = Append(lbCalls,
                    IF args.pixelData.isNull
                    THEN [args |-> args, promise |-> "rejected", value |-> LabNothing]
                    ELSE [args |-> args, promise |-> "fulfilled",
                          value |-> convertToLabSync(args.pixelData, args.sampleFactor)])
  /\ UNCHANGED << labWorker, messageHandlers, workerQueue, mainQueue, workerPc,
                  distanceCalls, distanceHandlers >>
  /\ UNCHANGED lbOthers

\* labDistanceWorker(lab1, lab2) of the worker, in units of 1 / LabScale,
\* rounded down; reading lab1[0] of null throws.
labDistanceWorker(lab1, lab2) == ISqrt(labDistSq(lab1.v, lab2.v))

\* self.onmessage of the worker, cases 'convertBulk' and 'distance': the
\* result is posted as 'conversionComplete' or 'distanceCalculated', an
\* exception as 'error'.
LW_OnMessage ==
  /\ workerPc = "waiting"
  /\ workerQueue # << >>
  /\ \E args \in {Head(workerQueue).data} :
       IF Head(workerQueue).type = "distance"
         THEN /\ workerPc' = workerPc
              /\ mainQueue' = Append(mainQueue,
                    IF args.lab1.isNull \/ args.lab2.isNull
                    THEN [type |-> "error", data |-> LabNothing]
                    ELSE [type |-> "distanceCalculated",
                          data |-> labDistanceWorker(args.lab1, args.lab2)])
       ELSE IF LabLoopNeverEnds(args)
         THEN /\ workerPc' = "hang"
              /\ UNCHANGED mainQueue
         ELSE /\ workerPc' = workerPc
              /\ mainQueue' = Append(mainQueue,
                    IF args.pixelData.isNull
                    THEN [type |-> "error", data |-> LabNothing]
                    ELSE [type |-> "conversionComplete",
                          data |-> convertToLabBulk(args.pixelData, args.sampleFactor)])
  /\ workerQueue' = Tail(workerQueue)
  /\ UNCHANGED << labWorker, lbCalls, messageHandlers, mainPc, distanceCalls, distanceHandlers >>
  /\ UNCHANGED lbOthers

\* labWorker.onmessage: every handler registered for the message's type is
\* called with its data; a 'conversionComplete' handler resolves its promise
\* and removes itself, and so does a 'distanceCalculated' handler.  No
\* handler is ever registered for 'error'.
LB_OnMessage ==
  /\ mainPc = "running"
  /\ mainQueue # << >>
  /\ IF Head(mainQueue).type = "conversionComplete"
       THEN /\ lbCalls' = [c \in 1..Len(lbCalls) |->
                             IF /\ \E h \in 1..Len(messageHandlers) : messageHandlers[h] = c
                                /\ lbCalls[c].promise = "pending"
                             THEN [lbCalls[c] EXCEPT !.promise = "fulfilled",
                                                     !.value = Head(mainQueue).data]
                             ELSE lbCalls[c]]
            /\ messageHandlers' = << >>
       ELSE UNCHANGED << lbCalls, messageHandlers >>
  /\ IF Head(mainQueue).type = "distanceCalculated"
       THEN /\ distanceCalls' = [c \in 1..Len(distanceCalls) |->
                             IF /\ \E h \in 1..Len(distanceHandlers) : distanceHandlers[h] = c
                                /\ distanceCalls[c].promise = "pending"
                             THEN [distanceCalls[c] EXCEPT !.promise = "fulfilled",
                                                           !.value = Head(mainQueue).data]
                             ELSE distanceCalls[c]]
            /\ distanceHandlers' = << >>
       ELSE UNCHANGED << distanceCalls, distanceHandlers >>
  /\ mainQueue' = Tail(mainQueue)
  /\ UNCHANGED << labWorker, workerQueue, workerPc, mainPc >>
  /\ UNCHANGED lbOthers

LBNext ==
  \/ LB_ConvertAsync
  \/ LB_ConvertFallback
  \/ LW_OnMessage
  \/ LB_OnMessage

MaxDistanceCalls == 2

\* lab1, lab2: null or a Lab triple in units of 1 / LabScale.
DistanceLabs ==
  {LDNull, [isNull |-> FALSE, v |-> << 0, 0, 0 >>], [isNull |-> FALSE, v |-> << 5000, 0, 0 >>]}
DistanceArgs == [lab1 : DistanceLabs, lab2 : DistanceLabs]

\* calculateLabDistanceSync(lab1, lab2) of the manager.
calculateLabDistanceSync(lab1, lab2) == ISqrt(labDistSq(lab1.v, lab2.v))

\* calculateLabDistanceAsync(lab1, lab2).  With a worker the handler is
\* registered and the request is posted; when new Worker(...) throws the
\* executor resolves with calculateLabDistanceSync, whose exception on a null
\* argument rejects the promise.
LB_DistanceAsync ==
  /\ mainPc = "running"
  /\ Len(distanceCalls) < MaxDistanceCalls
  /\ \E args \in DistanceArgs :
       \/ /\ labWorker' = "worker"
          /\ distanceCalls' = Append(distanceCalls,
                                     [args |-> args, promise |-> "pending", value |-> 0])
          /\ distanceHandlers' = Append(distanceHandlers, Len(distanceCalls) + 1)
          /\ workerQueue' = Append(workerQueue, [type |-> "distance", data |-> args])
       \/ /\ labWorker = "null"
          /\ distanceCalls' = Append(distanceCalls,
                IF args.lab1.isNull \/ args.lab2.isNull
                THEN [args |-> args, promise |-> "rejected", value |-> 0]
                ELSE [args |-> args, promise |-> "fulfilled",
                      value |-> calculateLabDistanceSync(args.lab1, args.lab2)])
          /\ UNCHANGED << labWorker, distanceHandlers, workerQueue >>
  /\ UNCHANGED << lbCalls, messageHandlers, mainQueue, workerPc, mainPc >>
  /\ UNCHANGED lbOthers

\* disposeLabWorker(): terminate() stops the worker and drops the messages
\* in both directions; messageHandlers lived on the worker object, and the
\* next initLabWorker() makes a new worker with none.  Promises that were
\* pending are left as they are.
LB_Dispose ==
  /\ mainPc = "running"
  /\ labWorker = "worker"
  /\ labWorker' = "null"
  /\ workerQueue' = << >>
  /\ mainQueue' = << >>
  /\ messageHandlers' = << >>
  /\ distanceHandlers' = << >>
  /\ workerPc' = "waiting"
  /\ UNCHANGED << lbCalls, distanceCalls, mainPc >>
  /\ UNCHANGED lbOthers

\* The manager with both kinds of request and disposeLabWorker.
LWNext ==
  \/ LB_ConvertAsync
  \/ LB_ConvertFallback
  \/ LB_DistanceAsync
  \/ LB_Dispose
  \/ LW_OnMessage
  \/ LB_OnMessage

\* ------------------------------------------------------------------------
\* The refiner's helpers called on their own (paletteAnalyzer.js:149-289)
\* ------------------------------------------------------------------------
MaxClusters == 3

\* Clusters {lab, count, rgb} of four greys; two neighbouring greys are 0.41
\* apart in Lab.
HPGreys == {100, 102, 103, 200}
HPCounts == {1, 2}
HPClusters ==
  {[lab |-> rgbToLab(g, g, g), count |-> n, rgb |-> [r |-> g, g |-> g, b |-> g]] :
     g \in HPGreys, n \in HPCounts}
HPClusterLists == UNION {[1..n -> HPClusters] : n \in 0..MaxClusters}

\* mergeCloseClusters(clusters, maxRadius, minClusters)
HPMergeInputs ==
  [clusters : HPClusterLists,
   maxRadius : {ActualRadius(0), ActualRadius(1), ActualRadius(2)},
   threshold : {0},
   minClusters : 0..MaxClusters]

\* detectBackground(palette, threshold, totalPixels) on the palette of
\* step 3: one PaletteColor per cluster.
HPBackgroundInputs ==
  [clusters : HPClusterLists, maxRadius : {0}, threshold : {1, 10}, minClusters : {0}]

HPIdle ==
  /\ hpFn = "none"
  /\ hpInput = [clusters |-> << >>, maxRadius |-> 0, threshold |-> 0, minClusters |-> 0]
  /\ hpPc = "idle"
  /\ hpOutput = << >>

HPInit ==
  /\ \/ hpFn = "mergeCloseClusters" /\ hpInput \in HPMergeInputs
     \/ hpFn = "detectBackground" /\ hpInput \in HPBackgroundInputs
  /\ hpPc = "start"
  /\ hpOutput = << >>

HP_Merge ==
  /\ hpPc = "start"
  /\ hpFn = "mergeCloseClusters"
  /\ hpOutput' = mergeCloseClusters(hpInput.clusters, hpInput.maxRadius, hpInput.minClusters)
  /\ hpPc' = "done"
  /\ UNCHANGED << hpFn, hpInput >>
  /\ UNCHANGED hpOthers

HP_DetectBackground ==
  /\ hpPc = "start"
  /\ hpFn = "detectBackground"
  /\ hpOutput' = detectBackground([i \in 1..Len(hpInput.clusters) |->
                                     PaletteColor(hpInput.clusters[i].rgb, hpInput.clusters[i].count)],
                                  hpInput.threshold)
  /\ hpPc' = "done"
  /\ UNCHANGED << hpFn, hpInput >>
  /\ UNCHANGED hpOthers

HPNext ==
  \/ HP_Merge
  \/ HP_DetectBackground

\* ------------------------------------------------------------------------
\* The orchestrator: processImageFile and the callbacks of one image load
\* (main.js:325-635, imagehandler.js:99-194)
\* ------------------------------------------------------------------------
MaxLoads == 2

\* The pixel count above which getCanvasPixelData downsamples (maxPixels =
\* 2000000 in imagehandler.js:151), scaled down so that the model's images
\* reach it.
CanvasCeiling == 6

\* The files the user can hand over: the name split at its dots, the MIME
\* type split at its slash, the size in bytes, and the natural size of the
\* image the file decodes to.
PIFiles ==
  {[name |-> << "a", "png" >>, type |-> << "image", "png" >>, size |-> 1, width |-> 2, height |-> 2],
   [name |-> << "b", "jpg" >>, type |-> << "image", "jpeg" >>, size |-> 1, width |-> 3, height |-> 3],
   [name |-> << "notes", "txt" >>, type |-> << "text", "plain" >>, size |-> 1, width |-> 0, height |-> 0]}

\* filename ? filename.split('.').slice(0, -1).join('.') || 'image' : 'pasted_image'
BaseName(name) ==
  IF name = << >> THEN << "pasted_image" >>
  ELSE IF SubSeq(name, 1, Len(name) - 1) \in {<< >>, << "" >>} THEN << "image" >>
  ELSE SubSeq(name, 1, Len(name) - 1)

\* getCanvasPixelData: the canvas takes the natural size, or that size
\* scaled by sqrt(maxPixels / totalPixels) and floored when the image is
\* above the ceiling; the buffer returned has 4 bytes per canvas pixel.
getCanvasPixelData(w, h) ==
  IF w * h > CanvasCeiling
  THEN [width  |-> ISqrt((w * w * CanvasCeiling) \div (w * h)),
        height |-> ISqrt((h * h * CanvasCeiling) \div (w * h)),
        length |-> 4 * ISqrt((w * w * CanvasCeiling) \div (w * h))
                    * ISqrt((h * h * CanvasCeiling) \div (w * h))]
  ELSE [width |-> w, height |-> h, length |-> 4 * w * h]

NoPixelData == [isNull |-> TRUE, of |-> 0, length |-> 0]
NoPalette == [isNull |-> TRUE, of |-> 0]

\* The state resetStateVariables leaves (main.js:627-635), which is also the
\* state the declarations of main.js:18-27 start with.
PIIdle ==
  /\ currentImageFilename = << "image" >>
  /\ currentPixelData = NoPixelData
  /\ currentImageSize = [width |-> 0, height |-> 0]
  /\ currentAnalyzedPalette = NoPalette
  /\ dashboardVisible = FALSE
  /\ imageLoads = << >>
  /\ uploadedImage = [src |-> 0, handlers |-> 0, loading |-> FALSE]
  /\ microtasks = << >>
  /\ stageCalls = << >>
  /\ lastRequest = 0

\* hideResults, disposeScene, resetStateVariables: the cleanup that opens
\* processImageFile and that the catch handler and resetToInitialState run.
\* Assigning '#' to src makes the element drop what it was loading and load
\* '#'; its onload and onerror stay those of the load that set them.
PICleanup ==
  /\ uploadedImage' = [uploadedImage EXCEPT !.src = 0, !.loading = TRUE]
  /\ dashboardVisible' = FALSE
  /\ currentAnalyzedPalette' = NoPalette
  /\ currentImageSize' = [width |-> 0, height |-> 0]
  /\ currentPixelData' = NoPixelData

\* processImageFile(file, file.name), lines 325-359 and loadImageAndDisplay
\* up to reader.readAsDataURL: cleanup, validation, the file name, and a
\* FileReader started for the file.
PI_ProcessImageFile ==
  /\ microtasks = << >>
  /\ Len(imageLoads) < MaxLoads
  /\ \E file \in PIFiles :
       /\ PICleanup
       /\ IF file.type[1] # "image" \/ file.size = 0
            THEN /\ currentImageFilename' = << "image" >>
                 /\ lastRequest' = 0
                 /\ UNCHANGED imageLoads
            ELSE /\ currentImageFilename' = BaseName(file.name)
                 /\ imageLoads' = Append(imageLoads,
                                         [file |-> file, reader |-> "reading", promise |-> "pending"])
                 /\ lastRequest' = Len(imageLoads) + 1
  /\ UNCHANGED << microtasks, stageCalls >>
  /\ UNCHANGED piOthers

\* resetToInitialState (the remove-image button), lines 606-624.
PI_ResetToInitialState ==
  /\ microtasks = << >>
  /\ imageLoads # << >>
  /\ PICleanup
  /\ currentImageFilename' = << "image" >>
  /\ lastRequest' = 0
  /\ UNCHANGED << imageLoads, microtasks, stageCalls >>
  /\ UNCHANGED piOthers

\* reader.onload of load i (imagehandler.js:111-127): the data URL goes into
\* the shared element, which takes this load's onload and onerror.
FR_OnLoad ==
  /\ microtasks = << >>
  /\ \E i \in 1..Len(imageLoads) :
       /\ imageLoads[i].reader = "reading"
       /\ imageLoads' = [imageLoads EXCEPT ![i].reader = "done"]
       /\ uploadedImage' = [src |-> i, handlers |-> i, loading |-> TRUE]
  /\ UNCHANGED << currentImageFilename, currentPixelData, currentImageSize,
                  currentAnalyzedPalette, dashboardVisible, microtasks, stageCalls, lastRequest >>
  /\ UNCHANGED piOthers

\* imgElement.onload (lines 114-118): the data URL in src has been decoded;
\* resolve() settles the promise of the load whose handler this is and
\* queues its then-callback.
IMG_OnLoad ==
  /\ microtasks = << >>
  /\ uploadedImage.loading
  /\ uploadedImage.src # 0
  /\ uploadedImage' = [uploadedImage EXCEPT !.loading = FALSE]
  /\ IF imageLoads[uploadedImage.handlers].promise = "pending"
       THEN /\ imageLoads' = [imageLoads EXCEPT ![uploadedImage.handlers].promise = "fulfilled"]
            /\ microtasks' = << [reaction |-> "then", load |-> uploadedImage.handlers] >>
       ELSE UNCHANGED << imageLoads, microtasks >>
  /\ UNCHANGED << currentImageFilename, currentPixelData, currentImageSize,
                  currentAnalyzedPalette, dashboardVisible, stageCalls, lastRequest >>
  /\ UNCHANGED piOthers

\* imgElement.onerror (lines 120-125): '#' is not an image; the handler the
\* element still carries assigns '#' again and rejects its promise, which
\* queues the catch handler.
IMG_OnError ==
  /\ microtasks = << >>
  /\ uploadedImage.loading
  /\ uploadedImage.src = 0
  /\ uploadedImage.handlers # 0
  /\ IF imageLoads[uploadedImage.handlers].promise = "pending"
       THEN /\ imageLoads' = [imageLoads EXCEPT ![uploadedImage.handlers].promise = "rejected"]
            /\ microtasks' = << [reaction |-> "catch", load |-> uploadedImage.handlers] >>
            /\ UNCHANGED uploadedImage
       ELSE /\ uploadedImage' = [uploadedImage EXCEPT !.loading = FALSE]
            /\ UNCHANGED << imageLoads, microtasks >>
  /\ UNCHANGED << currentImageFilename, currentPixelData, currentImageSize,
                  currentAnalyzedPalette, dashboardVisible, stageCalls, lastRequest >>
  /\ UNCHANGED piOthers

\* The then-callback of processImageFile (lines 360-418): the dashboard gets
\* its `visible` class, currentImageSize takes the natural size of the image
\* in the element, currentPixelData the canvas buffer, and applySLIC is
\* called with that buffer and currentImageSize.  extractDominantColors
\* follows, and analyzePalette (paletteAnalyzer.js:21) is called with the
\* pixel buffer as rawPalette: its map() yields numbers, and `color.lab[0]`
\* at paletteAnalyzer.js:100 throws a TypeError, so the callback ends before
\* line 421 and the promise chain runs the catch handler.
PI_ThenCallback ==
  /\ microtasks # << >>
  /\ Head(microtasks).reaction = "then"
  /\ \E file \in {imageLoads[uploadedImage.src].file} :
       /\ dashboardVisible' = TRUE
       /\ currentImageSize' = [width |-> file.width, height |-> file.height]
       /\ currentPixelData' = [isNull |-> FALSE, of |-> uploadedImage.src,
                               length |-> getCanvasPixelData(file.width, file.height).length]
       /\ stageCalls' = << [fn |-> "applySLIC",
                            length |-> getCanvasPixelData(file.width, file.height).length,
                            width |-> file.width, height |-> file.height] >>
  /\ microtasks' = << [reaction |-> "catch", load |-> Head(microtasks).load] >>
  /\ UNCHANGED << currentImageFilename, currentAnalyzedPalette, imageLoads, uploadedImage,
                  lastRequest >>
  /\ UNCHANGED piOthers

\* The catch handler of processImageFile (lines 565-573).
PI_CatchCallback ==
  /\ microtasks # << >>
  /\ Head(microtasks).reaction = "catch"
  /\ PICleanup
  /\ currentImageFilename' = << "image" >>
  /\ microtasks' = Tail(microtasks)
  /\ UNCHANGED << imageLoads, stageCalls, lastRequest >>
  /\ UNCHANGED piOthers

PINext ==
  \/ PI_ProcessImageFile
  \/ PI_ResetToInitialState
  \/ FR_OnLoad
  \/ IMG_OnLoad
  \/ IMG_OnError
  \/ PI_ThenCallback
  \/ PI_CatchCallback

MCIdle ==
  /\ mcFn = "extractPaletteMedianCut_v1"
  /\ mcPixelData = [isNull |-> TRUE, px |-> << >>]
  /\ mcTarget = 0
  /\ colorBoxes = << >>
  /\ splits = 0
  /\ mcPc = "idle"
  /\ mcResult = << >>

\* The quantizers alone.
NoEarlierCall == apEarlier = << >>

InitMC == MCInit /\ APIdle /\ SLIdle /\ NoEarlierCall /\ LDIdle /\ LBIdle /\ HPIdle /\ PIIdle
SpecMC == InitMC /\ [][MCNext]_vars

\* analyzePalette alone.
InitAP == APInit /\ MCIdle /\ SLIdle /\ NoEarlierCall /\ LDIdle /\ LBIdle /\ HPIdle /\ PIIdle
SpecAP == InitAP /\ [][APNext]_vars

\* analyzePalette called once more on the same raw palette after it has
\* returned, with a maxColors that is not smaller and all else equal.
AP_CallAgain ==
  /\ apPc = "done"
  /\ apEarlier = << >>
  /\ apEarlier' = << [args |-> apArgs, result |-> apResult] >>
  /\ \E p \in apArgs.maxColors..MaxColors :
       apArgs' = [apArgs EXCEPT !.maxColors = p]
  /\ centroids' = << >>
  /\ kmIter' = 0
  /\ apResult' = << >>
  /\ apPc' = "start"
  /\ UNCHANGED << apRawPalette, mcVars, slVars, ldVars, lbVars, hpVars, piVars >>

APTwiceNext ==
  \/ AP_Reject
  \/ KM_SeedFirst
  \/ KM_SeedNext
  \/ KM_Round
  \/ AP_Finish
  \/ AP_CallAgain

SpecAPTwice == InitAP /\ [][APTwiceNext]_vars

\* applySLIC alone.
InitSLIC == SLInit /\ MCIdle /\ APIdle /\ NoEarlierCall /\ LDIdle /\ LBIdle /\ HPIdle /\ PIIdle
SpecSLIC == InitSLIC /\ [][SLNext]_vars

\* labDistance alone.
InitLD == LDInit /\ MCIdle /\ APIdle /\ SLIdle /\ NoEarlierCall /\ LBIdle /\ HPIdle /\ PIIdle
SpecLD == InitLD /\ [][LDNext]_vars

\* The refiner's helpers alone.
InitHP == HPInit /\ MCIdle /\ APIdle /\ SLIdle /\ NoEarlierCall /\ LDIdle /\ LBIdle /\ PIIdle
SpecHP == InitHP /\ [][HPNext]_vars

\* The orchestrator alone.
InitPI == PIIdle /\ MCIdle /\ APIdle /\ SLIdle /\ NoEarlierCall /\ LDIdle /\ LBIdle /\ HPIdle
SpecPI == InitPI /\ [][PINext]_vars

\* The Lab worker and its manager with concurrent requests and disposal,
\* and the same under the scheduling of the two event loops: a message in
\* a queue is eventually handled.
InitLW == LBInit /\ MCIdle /\ APIdle /\ SLIdle /\ NoEarlierCall /\ LDIdle /\ HPIdle /\ PIIdle
SpecLW == InitLW /\ [][LWNext]_vars
SpecLWFair == SpecLW /\ WF_vars(LW_OnMessage) /\ WF_vars(LB_OnMessage)

\* The Lab worker and its manager alone.
InitLB == LBInit /\ MCIdle /\ APIdle /\ SLIdle /\ NoEarlierCall /\ LDIdle /\ HPIdle /\ PIIdle
SpecLB == InitLB /\ [][LBNext]_vars

\* ------------------------------------------------------------------------
\* Quantizer followed by the refiner (main.js:895-898)
\* ------------------------------------------------------------------------
\* const rawPalette = extractPaletteMedianCut(pixelData, maxColors);
\* const analyzedPalette = analyzePalette(rawPalette, ...): the quantizer's
\* {r, g, b, count} entries are the refiner's raw palette.
RawPaletteOf(result) ==
  [isNull  |-> FALSE,
   entries |-> [i \in 1..Len(result) |->
                  [r |-> result[i].r, g |-> result[i].g, b |-> result[i].b,
                   count |-> result[i].members]]]

PL_AnalyzePalette ==
  /\ mcPc = "done"
  /\ apPc = "idle"
  /\ apRawPalette' = RawPaletteOf(mcResult)
  /\ apArgs' \in APArgSets
  /\ apPc' = "start"
  /\ UNCHANGED << centroids, kmIter, apResult >>
  /\ UNCHANGED apOthers

PLNext ==
  \/ MC_Reject
  \/ MC_Collect
  \/ V1_Iterate
  \/ V2_Iterate
  \/ MC_Emit
  \/ PL_AnalyzePalette
  \/ AP_Reject
  \/ KM_SeedFirst
  \/ KM_SeedNext
  \/ KM_Round
  \/ AP_Finish

InitPipeline ==
  MCInit /\ mcFn # "extractDominantColors" /\ APIdle /\ SLIdle /\ NoEarlierCall /\ LDIdle /\ LBIdle /\ HPIdle /\ PIIdle
SpecPipeline == InitPipeline /\ [][PLNext]_vars

MCValidInput == ~mcPixelData.isNull /\ Len(mcPixelData.px) >= 1 /\ mcTarget >= 1

C3_NoEmptyBoxEmitted ==
  (mcPc = "done" /\ MCValidInput) =>
     \A i \in 1..Len(mcResult) : ~mcResult[i].nan /\ mcResult[i].members >= 1

\* The loop iteration the running quantizer is about to make.
LoopStep ==
  CASE mcFn = "extractPaletteMedianCut_v1" ->
         V1Step(colorBoxes, splits, mcTarget, Len(mcPixelData.px))
    [] mcFn = "extractPaletteMedianCut_v2" ->
         V2Step(colorBoxes, splits, mcTarget)
    [] OTHER -> MMCQStep(colorBoxes, splits, mcTarget)

\* C4: the split loop terminates: every loop iteration either leaves the
\* loop or strictly increases the box count or the split counter, and both
\* are bounded (the boxes by the pixels or the target, the splits by the
\* box count).
C4_SplitLoopTerminates ==
  mcPc = "loop" =>
    /\ \E nx \in {LoopStep} : \/ nx.pc # "loop"
                              \/ Len(nx.boxes) > Len(colorBoxes)
                              \/ nx.splits > splits
    /\ splits < Len(colorBoxes)
    /\ Len(colorBoxes) <= Max2(Max2(1, mcTarget), Len(mcPixelData.px))

\* C4 witness: the loop has run on a buffer of identical pixels and has
\* reached a box with a single member.
C4_Witness ==
  /\ mcPc = "loop"
  /\ Len(colorBoxes) >= 2
  /\ \A i \in 1..Len(mcPixelData.px) : mcPixelData.px[i] = mcPixelData.px[1]
  /\ \E i \in 1..Len(colorBoxes) : Len(colorBoxes[i]) = 1

\* C5: a null or empty buffer or a target <= 0 gives an empty list and no
\* exception.
C5_InvalidInputGivesEmpty ==
  MCInvalidInput => (mcPc # "threw" /\ (mcPc = "done" => mcResult = << >>))

APValidInput == ~APEmptyInput /\ apArgs.maxColors >= 1

RawTotal == SumSeq([i \in 1..Len(apRawPalette.entries) |-> apRawPalette.entries[i].count])
ResultTotal == SumSeq([i \in 1..Len(apResult) |-> apResult[i].count])

\* C1: for a non-empty raw palette with positive counts and maxColors >= 1,
\* the counts of the returned PaletteColor list add up to the counts of the
\* raw palette, whatever seeds are picked.
C1_CountsConserved ==
  (apPc = "done" /\ APValidInput) => ResultTotal = RawTotal

SLWidth == slInput.image.width
SLHeight == slInput.image.height
SLUniform ==
  /\ SLWidth * SLHeight >= 1
  /\ \A p \in 1..(SLWidth * SLHeight) : slInput.image.pixelData[p] = slInput.image.pixelData[1]
DistinctLabels(lbls) == {lbls[p] : p \in 1..Len(lbls)}
FeatureTotal == SumSeq([q \in 1..Len(slResult.features) |-> slResult.features[q].pixelCount])

\* C6: for a uniform image and K >= 1 the label map applySLIC returns holds
\* exactly one distinct label and features has exactly one entry.
C6_UniformCollapses ==
  (slPc = "done" /\ SLUniform /\ slInput.superpixelCount >= 1) =>
     /\ Cardinality(DistinctLabels(slResult.labels)) = 1
     /\ Len(slResult.features) = 1

\* C7: for width, height >= 1 and K >= 1 there is at least one seed centre,
\* enforceConnectivity produces at most as many labels as there are seed
\* centres, extractSuperpixelFeatures does not throw, and the result has one
\* feature per distinct label.
C7_OneFeaturePerLabel ==
  (SLWidth >= 1 /\ SLHeight >= 1 /\ slInput.superpixelCount >= 1) =>
     /\ slPc # "threw"
     /\ slPc \in {"assign", "connect", "extract", "done"} => Len(clusterCenters) >= 1
     /\ slPc = "extract" => Cardinality(DistinctLabels(labels)) <= Len(clusterCenters)
     /\ slPc = "done" => Len(slResult.features) = Cardinality(DistinctLabels(slResult.labels))

C10_InvalidInputGivesEmpty ==
  (SLWidth = 0 \/ SLHeight = 0 \/ slInput.superpixelCount <= 0) =>
     /\ slPc \notin {"threw", "hang"}
     /\ slPc = "done" => (slResult.labels = << >> /\ slResult.features = << >>)

\* C11: for a non-empty raw palette analyzePalette returns at most
\* maxColors entries, whatever seeds are picked.
C11_AtMostMaxColors ==
  (apPc = "done" /\ ~APEmptyInput) => Len(apResult) <= apArgs.maxColors

MCUniform ==
  /\ ~mcPixelData.isNull
  /\ Len(mcPixelData.px) >= 1
  /\ \A i \in 1..Len(mcPixelData.px) : mcPixelData.px[i] = mcPixelData.px[1]

\* C12: for a buffer whose pixels share one RGB value, every target >= 1 and
\* every paletteSize >= 1, the quantizer followed by analyzePalette returns
\* exactly one PaletteColor whose count is the pixel count and which is
\* flagged isBackground.
C12_UniformGivesOneEntry ==
  (apPc = "done" /\ MCUniform /\ mcTarget >= 1 /\ apArgs.maxColors >= 1) =>
     /\ Len(apResult) = 1
     /\ apResult[1].count = Len(mcPixelData.px)
     /\ apResult[1].isBackground

TwoColourImage ==
  /\ ~mcPixelData.isNull
  /\ mcPixelData.px = << <<255, 0, 0>>, <<255, 0, 0>>, <<0, 0, 255>>, <<0, 0, 255>> >>
  /\ mcTarget = 2
  /\ apArgs.maxColors = 2

\* C13: for the 2x2 image red, red, blue, blue with paletteSize 2 as the
\* quantizer target and as maxColors, the quantizer followed by
\* analyzePalette returns exactly two colours, pure red and pure blue, each
\* with count 2, whatever seeds are picked.
C13_TwoColourScenario ==
  (apPc = "done" /\ TwoColourImage) =>
     /\ Len(apResult) = 2
     /\ {<<apResult[i].rgb.r, apResult[i].rgb.g, apResult[i].rgb.b, apResult[i].count>> :
           i \in 1..Len(apResult)} = { <<255, 0, 0, 2>>, <<0, 0, 255, 2>> }

SecondCallDone == apPc = "done" /\ Len(apEarlier) = 1

\* C14: for every raw palette and every pair p1 < p2 passed as maxColors with
\* all other arguments equal, analyzePalette returns for p2 no fewer colours
\* than it returned for p1.
C14_MonotoneInMaxColors ==
  (SecondCallDone /\ apEarlier[1].args.maxColors < apArgs.maxColors) =>
     Len(apResult) >= Len(apEarlier[1].result)

\* C17: two calls of analyzePalette with identical arguments return
\* identical palettes: same colours, counts, flags and order.
C17_Reproducible ==
  (SecondCallDone /\ apEarlier[1].args = apArgs) => apResult = apEarlier[1].result

\* C15: extractPaletteMedianCut with target 1 on a buffer that holds only
\* the colour c returns exactly one entry whose r, g, b equal c.
C15_SingleColourIdempotent ==
  (/\ mcPc = "done"
   /\ mcFn \in {"extractPaletteMedianCut_v1", "extractPaletteMedianCut_v2"}
   /\ MCUniform
   /\ mcTarget = 1) =>
     /\ Len(mcResult) = 1
     /\ << mcResult[1].r, mcResult[1].g, mcResult[1].b >> = mcPixelData.px[1]

LDWellFormed == ~LDInvalid(ldLab1, ldLab2)

\* C16: for well-formed Lab triples x and y, labDistance(x, x) = 0 and
\* labDistance(x, y) = labDistance(y, x).
C16_LabDistanceZeroAndSymmetric ==
  (ldPc = "done" /\ LDWellFormed) =>
     /\ ~ldResult.infinite
     /\ ldLab1 = ldLab2 => ldResult.d = 0
     /\ ldResult = labDistance(ldLab2, ldLab1)

C16_Witness ==
  /\ ldPc = "done"
  /\ LDWellFormed
  /\ ldLab1 # ldLab2
  /\ ldResult.d > 0

\* A lone convertToLabAsync call that went to the worker and has resolved.
LoneWorkerCallResolved ==
  /\ Len(lbCalls) = 1
  /\ labWorker = "worker"
  /\ lbCalls[1].promise = "fulfilled"

\* C18: the value a lone convertToLabAsync call resolves with, computed by
\* the worker's convertToLabBulk, equals the value convertToLabSync returns
\* for the same buffer and sample factor.
C18_AsyncEqualsSync ==
  LoneWorkerCallResolved =>
     /\ ~lbCalls[1].args.pixelData.isNull
     /\ ~LabLoopNeverEnds(lbCalls[1].args)
     /\ lbCalls[1].value = convertToLabSync(lbCalls[1].args.pixelData,
                                            lbCalls[1].args.sampleFactor)

C18_Witness ==
  /\ LoneWorkerCallResolved
  /\ lbCalls[1].args.sampleFactor = 2
  /\ lbCalls[1].args.pixelData.px = << <<255, 0, 0>>, <<255, 0, 0>>, <<0, 0, 255>> >>
  /\ lbCalls[1].value.stats.count = 2

\* paletteParams.maxHiddenColors, the configured cap (main.js:53).
maxHiddenColors == 2

FeatureCount == Cardinality({i \in 1..Len(apResult) : apResult[i].isFeature})

\* C19: after analyzePalette at most maxHiddenColors entries have isFeature
\* true, for every palette and every feature threshold.
C19_FeaturesCapped ==
  apPc = "done" => FeatureCount <= maxHiddenColors

\* The colours of the round about to run that have no centroid at a Lab
\* distance below maxRadius.
OutOfRadius ==
  {i \in 1..Len(apRawPalette.entries) :
     \A c \in 1..Len(centroids) :
        labDistSq(WeightedColors(apRawPalette.entries)[i].lab, centroids[c].lab)
          >= ActualRadius(apArgs.mergeIntensity) * ActualRadius(apArgs.mergeIntensity)}

\* C20: in every assignment round of constrainedKmeans a colour with no
\* centroid at Lab distance below maxRadius is placed in the cluster of a
\* centroid whose Lab distance to it is minimal over all centroids.
C20_FallbackIsNearest ==
  apPc = "iterate" =>
     \A i \in OutOfRadius :
        \A c \in 1..Len(centroids) :
           labDistSq(WeightedColors(apRawPalette.entries)[i].lab,
                     centroids[ClosestIdx(WeightedColors(apRawPalette.entries)[i].lab, centroids,
                                          ActualRadius(apArgs.mergeIntensity))].lab)
             <= labDistSq(WeightedColors(apRawPalette.entries)[i].lab, centroids[c].lab)

MergeDone == hpPc = "done" /\ hpFn = "mergeCloseClusters"

\* C21: for every list of n clusters, every merge radius and every
\* minClusters, mergeCloseClusters returns at least min(n, minClusters)
\* clusters, and at least one when n >= 1.
C21_MergeKeepsMinimum ==
  MergeDone =>
     /\ Len(hpOutput) >= Min2(Len(hpInput.clusters), hpInput.minClusters)
     /\ Len(hpInput.clusters) >= 1 => Len(hpOutput) >= 1

C21_Witness ==
  /\ MergeDone
  /\ Len(hpInput.clusters) = 3
  /\ hpInput.minClusters = 2
  /\ Len(hpOutput) = 2
  /\ \A i, j \in 1..3 :
        labDistSq(hpInput.clusters[i].lab, hpInput.clusters[j].lab)
          < hpInput.maxRadius * hpInput.maxRadius

NoMergeablePair ==
  \A i, j \in 1..Len(hpOutput) :
     i # j => labDistSq(hpOutput[i].lab, hpOutput[j].lab)
                >= hpInput.maxRadius * hpInput.maxRadius

\* C22: in the list mergeCloseClusters returns, either the number of
\* clusters equals minClusters or every two distinct clusters have a
\* centroid Lab distance of at least the merge radius.
C22_NoMergeablePairLeft ==
  MergeDone => (Len(hpOutput) = hpInput.minClusters \/ NoMergeablePair)

BackgroundDone == hpPc = "done" /\ hpFn = "detectBackground" /\ Len(hpOutput) >= 1

Flagged == {i \in 1..Len(hpOutput) : hpOutput[i].isBackground}

\* Two entries are linked when their Lab distance is within the threshold.
Linked(i, j) ==
  labDistSq(hpOutput[i].lab, hpOutput[j].lab)
    <= (hpInput.threshold * LabScale) * (hpInput.threshold * LabScale)

\* S is one connected component: non-empty, closed under links, and not the
\* union of two unlinked parts.
IsComponent(S) ==
  /\ S # {}
  /\ \A i \in S : \A j \in 1..Len(hpOutput) : Linked(i, j) => j \in S
  /\ \A T \in SUBSET S :
        (T # {} /\ T # S) => \E i \in T : \E j \in S \ T : Linked(i, j)

Weight(S) == SumSeq([i \in 1..Len(hpOutput) |-> IF i \in S THEN hpOutput[i].count ELSE 0])

\* C23: after detectBackground on a palette with positive counts the entries
\* with isBackground true are exactly one connected component of the graph
\* that links entries within the threshold, and no other component has a
\* larger total count.
C23_BackgroundIsHeaviestComponent ==
  BackgroundDone =>
     /\ IsComponent(Flagged)
     /\ \A S \in SUBSET (1..Len(hpOutput)) : IsComponent(S) => Weight(S) <= Weight(Flagged)

C23_Witness ==
  /\ BackgroundDone
  /\ Len(hpOutput) = 3
  /\ Flagged = {2, 3}
  /\ Weight({1}) = 2

\* The position in colorBoxes' of the first child of the box a median-cut
\* step splits: v1 sorts the boxes and splits the first, v2 splits the first
\* largest box in place.
SplitAt == IF mcFn = "extractPaletteMedianCut_v1" THEN 1 ELSE LargestBoxIndex(colorBoxes)
SplitParent ==
  IF mcFn = "extractPaletteMedianCut_v1" THEN SortBoxesBySize(colorBoxes)[1]
  ELSE colorBoxes[LargestBoxIndex(colorBoxes)]

MedianCutSplits ==
  /\ mcFn \in {"extractPaletteMedianCut_v1", "extractPaletteMedianCut_v2"}
  /\ mcPc = "loop"
  /\ Len(colorBoxes') = Len(colorBoxes) + 1

OrderedPartition(parent, child1, child2) ==
  /\ Len(child1) = Len(parent) \div 2
  /\ Len(child2) = Len(parent) - Len(parent) \div 2
  /\ \A x \in 1..Len(child1) : \A y \in 1..Len(child2) :
        Channel(child1, getWidestChannel(parent))[x]
          <= Channel(child2, getWidestChannel(parent))[y]

\* C24: whenever extractPaletteMedianCut splits a box of n >= 2 members along
\* the channel getWidestChannel returns, the first child has floor(n/2)
\* members, the second n - floor(n/2), and every member of the first child
\* has a channel value <= that of every member of the second.
C24_SplitIsOrderedPartition ==
  [][MedianCutSplits =>
       OrderedPartition(SplitParent, colorBoxes'[SplitAt], colorBoxes'[SplitAt + 1])]_vars

\* enforceConnectivity's view of the labels it is given: the 4-connected
\* component of a pixel, whether it is below minSegmentSize, and whether two
\* pixels are 4-adjacent.
ComponentOf(p) == floodFill(labels, downsampled.width, downsampled.height, {p})
Discarded(p) ==
  2 * Cardinality({labels[q] : q \in 1..Len(labels)}) * Cardinality(ComponentOf(p))
    < downsampled.width * downsampled.height
Adjacent4(p, q) ==
  \/ q = p - downsampled.width
  \/ q = p + downsampled.width
  \/ (q = p - 1 /\ (p - 1) % downsampled.width # 0)
  \/ (q = p + 1 /\ p % downsampled.width # 0)

ConnectivityStep == slPc = "connect" /\ slPc' = "extract"

\* C25: in the label map enforceConnectivity returns, every pixel of a
\* discarded (too small) 4-connected component carries the label of a kept
\* segment that is 4-adjacent to that component.
C25_SmallComponentsAbsorbed ==
  [][ConnectivityStep =>
       \A p \in 1..Len(labels) :
         Discarded(p) =>
           \E q \in 1..Len(labels) :
             /\ q \notin ComponentOf(p)
             /\ ~Discarded(q)
             /\ \E m \in ComponentOf(p) : Adjacent4(m, q)
             /\ labels'[p] = labels'[q]]_vars

\* The centres (1-based) whose search window contains pixel p, and the
\* distance of pixel p to centre q, both from the centres a round starts with.
WindowsOver(p) ==
  {q \in 1..Len(clusterCenters) :
     InWindow(clusterCenters[q], (p - 1) % downsampled.width, (p - 1) \div downsampled.width,
              downsampled.width, downsampled.height,
              SearchRegion(downsampled.width, downsampled.height, Len(clusterCenters)))}
RoundDistance(p, q) ==
  PixelDistance(downsampled.data[p], clusterCenters[q],
                (p - 1) % downsampled.width, (p - 1) \div downsampled.width,
                downsampled.width, downsampled.height, Len(clusterCenters),
                slInput.compactness)

AssignmentRound == slPc = "assign" /\ slIter' = slIter + 1

\* C26: at the end of the assignment phase of each round, every pixel lying
\* in the search window of at least one centre is labelled with a centre
\* whose colour-plus-weighted-spatial distance to the pixel, computed from
\* that round's centres, is minimal among the centres whose window contains
\* the pixel.
C26_LabelsFollowCurrentCentres ==
  [][AssignmentRound =>
       \A p \in 1..Len(labels') :
         WindowsOver(p) # {} =>
           /\ labels'[p] + 1 \in 1..Len(clusterCenters)
           /\ \A q \in WindowsOver(p) :
                RoundDistance(p, labels'[p] + 1) <= RoundDistance(p, q)]_vars

\* C27: in every run started by processImageFile, also for an image above
\* the ceiling at which getCanvasPixelData downsamples, the buffer, width and
\* height handed to applySLIC and calculateColorStats satisfy
\* buffer.length = width * height * 4.
C27_BufferMatchesDimensions ==
  \A k \in 1..Len(stageCalls) :
    stageCalls[k].length = stageCalls[k].width * stageCalls[k].height * 4

\* A promise reaction of a load that is no longer the one the latest user
\* action started is about to run.
SupersededCompletion ==
  /\ microtasks # << >>
  /\ Head(microtasks).load # lastRequest

\* C28: once a newer processImageFile call or resetToInitialState has run,
\* the completion of an image load started earlier never writes
\* currentPixelData, currentImageSize or currentAnalyzedPalette and never
\* makes results visible.
C28_SupersededLoadHasNoEffect ==
  [][SupersededCompletion =>
       /\ UNCHANGED << currentPixelData, currentImageSize, currentAnalyzedPalette >>
       /\ (dashboardVisible' => dashboardVisible)]_vars

\* C29: each promise returned by convertToLabAsync or
\* calculateLabDistanceAsync resolves with the result computed from the
\* arguments of its own call, also when other calls are in flight on the
\* shared worker.
C29_EachRequestGetsItsOwnAnswer ==
  /\ \A c \in 1..Len(distanceCalls) :
       distanceCalls[c].promise = "fulfilled" =>
         /\ ~distanceCalls[c].args.lab1.isNull
         /\ ~distanceCalls[c].args.lab2.isNull
         /\ distanceCalls[c].value
              = labDistanceWorker(distanceCalls[c].args.lab1, distanceCalls[c].args.lab2)
  /\ \A c \in 1..Len(lbCalls) :
       lbCalls[c].promise = "fulfilled" =>
         /\ ~lbCalls[c].args.pixelData.isNull
         /\ lbCalls[c].value
              = convertToLabBulk(lbCalls[c].args.pixelData, lbCalls[c].args.sampleFactor)

\* The worker replies to every message it receives, and the manager's
\* synchronous fallback returns: no conversion loop runs forever.
WorkerAlwaysReplies == workerPc # "hang" /\ mainPc # "hang"

\* C30: if the worker replies to every message it receives, each promise
\* returned by convertToLabAsync or calculateLabDistanceAsync is eventually
\* resolved or rejected, also when the reply is of type 'error' and when
\* disposeLabWorker runs while the request is pending.
C30_EveryRequestSettles ==
  []WorkerAlwaysReplies =>
    /\ \A c \in 1..MaxDistanceCalls :
         (Len(distanceCalls) >= c)
           ~> (Len(distanceCalls) >= c /\ distanceCalls[c].promise # "pending")
    /\ \A c \in 1..MaxLabCalls :
         (Len(lbCalls) >= c)
           ~> (Len(lbCalls) >= c /\ lbCalls[c].promise # "pending")

====
